---- MODULE Spec2Model ----
(***************************************************************************)
(* StockSightAI: chart analysis pipeline and suggestion dispatcher.        *)
(*                                                                         *)
(* Numbers.  Python floats are modelled by exact fixed-point integers:     *)
(*   - a confidence or a signal score c is the integer c * Scale, where    *)
(*     Scale is a multiple of 100 and of every line total up to MaxLines,  *)
(*     so that count / total, + 0.1 and the thresholds 0.6, 0.65, 0.7 are  *)
(*     all exact;                                                          *)
(*   - a price p is the integer p * 100 (cents); round(x, 2) rounds an     *)
(*     exact quotient to the nearest cent, ties to even;                   *)
(*   - a slope s is the integer s * 100.                                   *)
(* Pattern names are sequences of words, so that Python's substring test   *)
(* ("Uptrend" in name) is the contiguous-subsequence test In(words, name). *)
(***************************************************************************)
EXTENDS Integers, Sequences, FiniteSets, TLC

\* ------------------------------------------------------------------ bounds
\* Longest list of Hough segments handed to detect_trend_lines.
MaxLines == 3
\* Longest list of Hough segments handed to detect_triangle_patterns.
MaxTriLines == 4
\* Longest list of external contours found in the edge map.
MaxContours == 3

\* -------------------------------------------------------------- arithmetic
Abs(x) == IF x < 0 THEN -x ELSE x
Min2(a, b) == IF a < b THEN a ELSE b
Max2(a, b) == IF a > b THEN a ELSE b
Max3(a, b, c) == Max2(a, Max2(b, c))

RECURSIVE Gcd(_, _)
Gcd(a, b) == IF b = 0 THEN a ELSE Gcd(b, a % b)

RECURSIVE LcmUpTo(_)
LcmUpTo(n) == IF n <= 1 THEN 1 ELSE LET l == LcmUpTo(n - 1) IN (l * n) \div Gcd(l, n)

\* One unit of confidence / signal score.
Scale == 100 * LcmUpTo(MaxLines)

\* The confidence n/d as a fixed-point number (exact when d divides n * Scale).
Conf(n, d) == (n * Scale) \div d

\* n/d (d > 0, n >= 0) rounded to the nearest integer, ties to even: round().
RoundDiv(n, d) ==
    LET q == n \div d
        r == n % d
    IN  IF 2 * r < d THEN q
        ELSE IF 2 * r > d THEN q + 1
        ELSE IF q % 2 = 0 THEN q ELSE q + 1

RECURSIVE SeqsUpTo(_, _)
\* All sequences over S of length at most n.
SeqsUpTo(S, n) ==
    IF n = 0 THEN {<<>>}
    ELSE LET shorter == SeqsUpTo(S, n - 1)
         IN  shorter \cup {Append(s, x) : s \in {t \in shorter : Len(t) = n - 1}, x \in S}

\* Python: needle in name, on word sequences.
In(needle, name) ==
    \E i \in 0..(Len(name) - Len(needle)) :
        \A j \in 1..Len(needle) : name[i + j] = needle[j]

\* ------------------------------------------------------------------- state
VARIABLES
    pc,                   \* position of the request in its call chain
    timeframe,            \* the timeframe token of the request
    trend_lines,          \* identify_patterns: result of detect_trend_lines
    candlestick_patterns, \* identify_patterns: result of detect_candlestick_patterns
    head_and_shoulders,   \* identify_patterns: result of detect_head_and_shoulders
    double_top_bottom,    \* identify_patterns: result of detect_double_top_bottom
    triangle_patterns,    \* identify_patterns: result of detect_triangle_patterns
    patterns,             \* analysis_results["patterns"]
    horizontal_lines,     \* extract_support_resistance: the lines or peaks it maps
    indicators,           \* analysis_results["indicators"]
    image_data,           \* the preprocessed image of the request, where the run follows it
    bullish_signals,      \* generate_rule_based_suggestion: the bullish score
    bearish_signals,      \* generate_rule_based_suggestion: the bearish score
    signal_diff,          \* generate_rule_based_suggestion: bullish - bearish
    suggestion,           \* the suggestion returned to the caller
    OPENAI_API_KEY,       \* ai_suggestions.OPENAI_API_KEY, read once at import
    openai,               \* ai_suggestions.openai: TRUE for a client, FALSE for None
    environ,              \* os.environ["OPENAI_API_KEY"], "" when unset
    response,             \* what the generative call of the request came back with
    attempted,            \* whether the request called openai.chat.completions.create
    raised,               \* whether the request raised to its caller
    first_call,           \* the first direct call of generate_rule_based_suggestion on
                          \* this analysis: its result, and the credential in the environment
    last_call,            \* the latest such call
    quota_exceeded,       \* whether a generative call of this process has failed with a
                          \* quota error (ai_suggestions.py line 134 was printed)
    multiplier,           \* get_timeframe_multiplier: the latest call, token and result
    previous,             \* get_timeframe_multiplier: the call before it
    session_state,        \* st.session_state of the browser session
    user_database,        \* the file user_database.pkl: whether it exists, and its users
    now,                  \* datetime.now(), as the number of timestamps taken so far
    auth_call,            \* the latest call of signup, login or logout: its arguments, its
                          \* result and the users stored before it
    authenticated_as      \* the username and password hash of the latest successful login

detectorVars == <<trend_lines, candlestick_patterns, head_and_shoulders,
                  double_top_bottom, triangle_patterns>>
analysisVars == <<patterns, indicators>>
processVars  == <<OPENAI_API_KEY, openai, environ>>
requestVars  == <<response, attempted, raised>>
callVars     == <<first_call, last_call>>
scoreVars    == <<bullish_signals, bearish_signals, signal_diff>>
utilVars     == <<multiplier, previous>>
appVars      == <<session_state, user_database, now, auth_call, authenticated_as>>

vars == <<pc, timeframe, image_data, detectorVars, analysisVars, horizontal_lines, scoreVars,
          suggestion, processVars, requestVars, callVars, quota_exceeded, utilVars,
          appVars>>

\* A local or a result that holds no value.
None == [none |-> TRUE]

\* ---------------------------------------------------- detect_trend_lines
\* A Hough segment is <<x1, y1, x2, y2>>.
TrendSegments ==
    { <<0, 0, 10, 5>>,      \* x-extent below 20: skipped
      <<0, 50, 60, 52>>,    \* |slope| < 0.1: horizontal
      <<0, 0, 50, 5>>,      \* slope = 0.1 exactly: not horizontal, downtrend
      <<0, 40, 60, 10>>,    \* slope < 0: uptrend
      <<0, 10, 60, 40>> }   \* slope > 0: downtrend

\* cv2.HoughLinesP returns None when it finds no segment, never an empty array:
\* the empty sequence stands for None.
HoughLines == SeqsUpTo(TrendSegments, MaxLines)

\* Default results with no class ahead of the others.
DefaultTrendFlat ==
    [uptrend |-> Conf(3, 10), downtrend |-> Conf(3, 10), sideways |-> Conf(3, 10)]

DefaultTrend ==
    [uptrend |-> Conf(3, 10), downtrend |-> Conf(3, 10), sideways |-> Conf(5, 10)]

\* The loop of lines 161-178, as counts after the segments i..Len(lines).
RECURSIVE CountSlopes(_, _, _)
CountSlopes(lines, i, c) ==
    IF i > Len(lines) THEN c
    ELSE LET x1 == lines[i][1]
             y1 == lines[i][2]
             x2 == lines[i][3]
             y2 == lines[i][4]
         IN  IF Abs(x2 - x1) < 20 THEN CountSlopes(lines, i + 1, c)
             ELSE IF x2 # x1
                  THEN \* slope = (y2 - y1) / (x2 - x1)
                       IF 10 * Abs(y2 - y1) < Abs(x2 - x1)
                       THEN CountSlopes(lines, i + 1, [c EXCEPT !.horizontal = @ + 1])
                       ELSE IF (y2 - y1) * (x2 - x1) > 0
                            THEN CountSlopes(lines, i + 1, [c EXCEPT !.downtrend = @ + 1])
                            ELSE CountSlopes(lines, i + 1, [c EXCEPT !.uptrend = @ + 1])
                  ELSE CountSlopes(lines, i + 1, c)

\* TrendConfidences without the cap at 1.0.
TrendConfidencesUncapped(c) ==
    LET total == c.uptrend + c.downtrend + c.horizontal
        up0   == Conf(c.uptrend, total)
        down0 == Conf(c.downtrend, total)
        side0 == Conf(c.horizontal, total)
        strongest == Max3(up0, down0, side0)
    IN  [uptrend   |-> IF strongest = up0 THEN up0 + Conf(1, 10) ELSE up0,
         downtrend |-> IF strongest # up0 /\ strongest = down0 THEN down0 + Conf(1, 10) ELSE down0,
         sideways  |-> IF strongest # up0 /\ strongest # down0 THEN side0 + Conf(1, 10) ELSE side0]

\* TrendConfidences with the bonus given to every class that ties for the lead.
TrendConfidencesBonusAll(c) ==
    LET total == c.uptrend + c.downtrend + c.horizontal
        up0   == Conf(c.uptrend, total)
        down0 == Conf(c.downtrend, total)
        side0 == Conf(c.horizontal, total)
        strongest == Max3(up0, down0, side0)
        up1   == IF strongest = up0 THEN up0 + Conf(1, 10) ELSE up0
        down1 == IF strongest = down0 THEN down0 + Conf(1, 10) ELSE down0
        side1 == IF strongest = side0 THEN side0 + Conf(1, 10) ELSE side0
    IN  [uptrend   |-> Min2(up1, Scale),
         downtrend |-> Min2(down1, Scale),
         sideways  |-> Min2(side1, Scale)]

\* TrendConfidences with a bonus of 0.2 for every class that ties for the lead.
TrendConfidencesWideBonus(c) ==
    LET total == c.uptrend + c.downtrend + c.horizontal
        up0   == Conf(c.uptrend, total)
        down0 == Conf(c.downtrend, total)
        side0 == Conf(c.horizontal, total)
        strongest == Max3(up0, down0, side0)
        up1   == IF strongest = up0 THEN up0 + Conf(2, 10) ELSE up0
        down1 == IF strongest = down0 THEN down0 + Conf(2, 10) ELSE down0
        side1 == IF strongest = side0 THEN side0 + Conf(2, 10) ELSE side0
    IN  [uptrend   |-> Min2(up1, Scale),
         downtrend |-> Min2(down1, Scale),
         sideways  |-> Min2(side1, Scale)]

\* Lines 190-213: proportions, the +0.1 bias to the strongest, the cap at 1.0.
TrendConfidences(c) ==
    LET total == c.uptrend + c.downtrend + c.horizontal
        up0   == Conf(c.uptrend, total)
        down0 == Conf(c.downtrend, total)
        side0 == Conf(c.horizontal, total)
        strongest == Max3(up0, down0, side0)
        up1   == IF strongest = up0 THEN up0 + Conf(1, 10) ELSE up0
        down1 == IF strongest # up0 /\ strongest = down0 THEN down0 + Conf(1, 10) ELSE down0
        side1 == IF strongest # up0 /\ strongest # down0 THEN side0 + Conf(1, 10) ELSE side0
    IN  [uptrend   |-> Min2(up1, Scale),
         downtrend |-> Min2(down1, Scale),
         sideways  |-> Min2(side1, Scale)]

detect_trend_lines(lines) ==
    IF lines = <<>> THEN DefaultTrend
    ELSE LET c == CountSlopes(lines, 1, [uptrend |-> 0, downtrend |-> 0, horizontal |-> 0])
         IN  IF c.uptrend + c.downtrend + c.horizontal = 0 THEN DefaultTrend
             ELSE TrendConfidences(c)

TrendLineResults == {detect_trend_lines(l) : l \in HoughLines}

\* -------------------------------------------- detect_candlestick_patterns
\* An image as this detector sees it: colour or grayscale, and the number of
\* green and red pixels in its bottom third.
PixelCounts == {0, 100, 101, 300}
CandleImages == [color : BOOLEAN, green : PixelCounts, red : PixelCounts]

detect_candlestick_patterns(image) ==
    IF ~image.color THEN <<>>
    ELSE LET total_colored_pixels == image.green + image.red
         IN  IF total_colored_pixels > 0
             THEN \* green_ratio > 0.6  <=>  10 * green > 6 * total
                  (IF 10 * image.green > 6 * total_colored_pixels /\ image.green > 100
                   THEN << [name |-> <<"Bullish", "Candle", "Pattern">>,
                            confidence |-> Min2(Conf(1, 2) + Conf(image.green, total_colored_pixels),
                                                Conf(9, 10))] >>
                   ELSE <<>>)
                  \o
                  (IF 10 * image.red > 6 * total_colored_pixels /\ image.red > 100
                   THEN << [name |-> <<"Bearish", "Candle", "Pattern">>,
                            confidence |-> Min2(Conf(1, 2) + Conf(image.red, total_colored_pixels),
                                                Conf(9, 10))] >>
                   ELSE <<>>)
             ELSE <<>>

CandleResults == {detect_candlestick_patterns(i) : i \in CandleImages}

\* ------------------------------------------------------------- contours
\* The edge map is ImageShape.height x ImageShape.width pixels.
ImageShape == [height |-> 100, width |-> 100]

\* A contour of cv2.findContours: its area (cv2.contourArea, also the moment
\* m00), the height h of its bounding rectangle and its centroid
\* (int(m10/m00), int(m01/m00)), which is undefined when m00 = 0.
ContourShapes ==
    { [area |-> 900, h |-> 30, cx |-> 20, cy |-> 20],
      [area |-> 800, h |-> 40, cx |-> 60, cy |-> 22],
      [area |-> 700, h |-> 30, cx |-> 25, cy |-> 80],
      [area |-> 600, h |-> 20, cx |-> 70, cy |-> 84],
      [area |-> 0,   h |-> 60, cx |-> 0,  cy |-> 0] }

ContourLists == SeqsUpTo(ContourShapes, MaxContours)

\* The sort orders the code uses: a must come strictly before b.
Before(a, b, order) ==
    CASE order = "area_descending" -> a.area > b.area   \* key=cv2.contourArea, reverse=True
      [] order = "x_ascending"     -> a.cx < b.cx       \* key=lambda p: p[0]
      [] order = "ascending"       -> a < b             \* sorted(numbers)
      [] order = "descending"      -> a > b             \* sorted(numbers, reverse=True)

\* sorted(xs, key = ...) and list.sort(key = ...) are stable: each element in
\* turn is inserted after the elements it does not come strictly before.
RECURSIVE InsertSorted(_, _, _)
InsertSorted(sorted, x, order) ==
    IF sorted = <<>> THEN <<x>>
    ELSE LET last == sorted[Len(sorted)]
         IN  IF Before(x, last, order)
             THEN Append(InsertSorted(SubSeq(sorted, 1, Len(sorted) - 1), x, order), last)
             ELSE Append(sorted, x)

RECURSIVE SortedBy(_, _)
SortedBy(xs, order) ==
    IF xs = <<>> THEN <<>>
    ELSE InsertSorted(SortedBy(SubSeq(xs, 1, Len(xs) - 1), order), xs[Len(xs)], order)

\* sorted(contours, key=cv2.contourArea, reverse=True)[:5]
LargestContours(contours) ==
    LET s == SortedBy(contours, "area_descending")
    IN  SubSeq(s, 1, Min2(5, Len(s)))

\* ------------------------------------------------ detect_head_and_shoulders
detect_head_and_shoulders(contours) ==
    IF Len(contours) < 3 THEN [confidence |-> 0]
    ELSE LET top == LargestContours(contours)
             heights == [i \in 1..3 |-> top[i].h]
         IN  IF heights[2] > heights[1] /\ heights[2] > heights[3]
             THEN [confidence |->
                      Min2(Conf(6, 10) + (2 * Scale * heights[2]) \div (10 * Max2(heights[1], heights[3])),
                           Conf(9, 10))]
             ELSE [confidence |-> Conf(2, 10)]

\* ------------------------------------------------- detect_double_top_bottom
DefaultDouble ==
    [double_top |-> [confidence |-> Conf(1, 10)], double_bottom |-> [confidence |-> Conf(1, 10)]]

\* 0.7 + 0.2 * (1 - y_diff / (height * 0.05))
DoubleConfidence(y_diff) ==
    Conf(7, 10) + (2 * Scale * (5 * ImageShape.height - 100 * y_diff)) \div (50 * ImageShape.height)

\* The loop of lines 360-376 from pair i on; c holds the two confidences so far.
RECURSIVE ScanCentroids(_, _, _)
ScanCentroids(centroids, i, c) ==
    IF i > Len(centroids) - 1 THEN c
    ELSE LET x1 == centroids[i].cx
             y1 == centroids[i].cy
             x2 == centroids[i + 1].cx
             y2 == centroids[i + 1].cy
             y_diff == Abs(y1 - y2)
             x_diff == Abs(x1 - x2)
             hit == 100 * y_diff < 5 * ImageShape.height /\ 100 * x_diff > 15 * ImageShape.width
             top == IF hit /\ 10 * y1 < 4 * ImageShape.height THEN DoubleConfidence(y_diff) ELSE c.top
             bottom == IF hit /\ 10 * y1 > 6 * ImageShape.height THEN DoubleConfidence(y_diff) ELSE c.bottom
         IN  ScanCentroids(centroids, i + 1, [top |-> top, bottom |-> bottom])

detect_double_top_bottom(contours) ==
    IF Len(contours) < 2 THEN DefaultDouble
    ELSE LET top == LargestContours(contours)
             centroids == SelectSeq(top, LAMBDA c : c.area # 0)
         IN  IF Len(centroids) < 2 THEN DefaultDouble
             ELSE LET c == ScanCentroids(SortedBy(centroids, "x_ascending"), 1,
                                         [top |-> Conf(1, 10), bottom |-> Conf(1, 10)])
                  IN  [double_top    |-> [confidence |-> Min2(c.top, Conf(9, 10))],
                       double_bottom |-> [confidence |-> Min2(c.bottom, Conf(9, 10))]]

\* Both contour detectors read the same edge map.
ContourResults ==
    { [hs |-> detect_head_and_shoulders(c), dtb |-> detect_double_top_bottom(c)] : c \in ContourLists }

\* ------------------------------------------------- detect_triangle_patterns
\* Slopes are counted in twentieths: the slope s is the integer 20 * s, and the
\* sample segments have slopes that are whole twentieths.
TriangleSegments ==
    { <<0, 0, 0, 40>>,      \* vertical: skipped
      <<0, 50, 100, 0>>,    \* slope -0.5
      <<0, 50, 100, 45>>,   \* slope -0.05
      <<0, 0, 100, 50>>,    \* slope 0.5
      <<0, 0, 100, 5>> }    \* slope 0.05

\* The empty sequence stands for None, as in HoughLines.
TriangleLines == SeqsUpTo(TriangleSegments, MaxTriLines)

Slope20(line) == ((line[4] - line[2]) * 20) \div (line[3] - line[1])

RECURSIVE SumSeq(_)
SumSeq(s) == IF s = <<>> THEN 0 ELSE s[1] + SumSeq(Tail(s))

\* The slopes of the lines with x2 # x1, in order.
SlopesOf(lines) ==
    LET kept == SelectSeq(lines, LAMBDA l : l[3] - l[1] # 0)
    IN  [i \in 1..Len(kept) |-> Slope20(kept[i])]

\* np.var(s) is VarNum(s) / (400 * Len(s)^2).
VarNum(s) == Len(s) * SumSeq([i \in 1..Len(s) |-> s[i] * s[i]]) - SumSeq(s) * SumSeq(s)
VarDen(s) == 400 * Len(s) * Len(s)

\* 100 * variance_factor, rounded down, where
\* variance_factor = 1 / (1 + up_variance + down_variance).
VarianceFactor100(up_slopes, down_slopes) ==
    LET gu == Gcd(VarNum(up_slopes), VarDen(up_slopes))
        a  == VarNum(up_slopes) \div gu
        b  == VarDen(up_slopes) \div gu
        gd == Gcd(VarNum(down_slopes), VarDen(down_slopes))
        c  == VarNum(down_slopes) \div gd
        d  == VarDen(down_slopes) \div gd
    IN  (100 * b * d) \div (b * d + a * d + c * b)

DefaultTriangle ==
    [ascending  |-> [confidence |-> Conf(1, 10)],
     descending |-> [confidence |-> Conf(1, 10)],
     symmetric  |-> [confidence |-> Conf(1, 10)]]

detect_triangle_patterns(lines) ==
    IF lines = <<>> \/ Len(lines) < 2 THEN DefaultTriangle
    ELSE LET slopes      == SlopesOf(lines)
             down_slopes == SelectSeq(slopes, LAMBDA s : s > 0)
             up_slopes   == SelectSeq(slopes, LAMBDA s : s < 0)
         IN  IF Len(up_slopes) >= 2 /\ Len(down_slopes) >= 2
             THEN LET found == Conf(6, 10) + (3 * Scale * VarianceFactor100(up_slopes, down_slopes)) \div 1000
                      \* |up_avg| * nu * nd and |down_avg| * nu * nd
                      up_abs   == Abs(SumSeq(up_slopes)) * Len(down_slopes)
                      down_abs == Abs(SumSeq(down_slopes)) * Len(up_slopes)
                      symmetric  == IF 10 * Abs(up_abs - down_abs) < 2 * Max2(up_abs, down_abs)
                                    THEN found ELSE Conf(1, 10)
                      ascending  == IF (\E i \in 1..Len(down_slopes) : Abs(down_slopes[i]) < 2)
                                       /\ (\E i \in 1..Len(up_slopes) : up_slopes[i] < -2)
                                    THEN found ELSE Conf(1, 10)
                      descending == IF (\E i \in 1..Len(up_slopes) : Abs(up_slopes[i]) < 2)
                                       /\ (\E i \in 1..Len(down_slopes) : down_slopes[i] > 2)
                                    THEN found ELSE Conf(1, 10)
                  IN  [ascending  |-> [confidence |-> Min2(ascending, Conf(9, 10))],
                       descending |-> [confidence |-> Min2(descending, Conf(9, 10))],
                       symmetric  |-> [confidence |-> Min2(symmetric, Conf(9, 10))]]
             ELSE DefaultTriangle

TriangleResults == {detect_triangle_patterns(l) : l \in TriangleLines}

\* ------------------------------------------------------- identify_patterns
Pattern(name, confidence) == [name |-> name, confidence |-> confidence]

\* One entry if the condition holds, none otherwise (an if ... append).
Emit(cond, name, confidence) == IF cond THEN <<Pattern(name, confidence)>> ELSE <<>>

\* Lines 83-96: the loop over triangle_patterns.items(), in insertion order;
\* f"{pattern_name.capitalize()} Triangle".
TrianglePatterns(tri) ==
    Emit(tri.ascending.confidence > Conf(65, 100), <<"Ascending", "Triangle">>, tri.ascending.confidence)
    \o Emit(tri.descending.confidence > Conf(65, 100), <<"Descending", "Triangle">>, tri.descending.confidence)
    \o Emit(tri.symmetric.confidence > Conf(65, 100), <<"Symmetric", "Triangle">>, tri.symmetric.confidence)

\* ThresholdedPatterns with the uptrend threshold met at equality.
ThresholdedPatternsInclusive(tl, cp, hs, dtb, tri) ==
    Emit(tl.uptrend >= Conf(6, 10), <<"Uptrend">>, tl.uptrend)
    \o Emit(tl.downtrend > Conf(6, 10), <<"Downtrend">>, tl.downtrend)
    \o Emit(tl.sideways > Conf(6, 10), <<"Sideways/Consolidation">>, tl.sideways)
    \o Emit(hs.confidence > Conf(7, 10), <<"Head", "and", "Shoulders">>, hs.confidence)
    \o Emit(dtb.double_top.confidence > Conf(7, 10), <<"Double", "Top">>, dtb.double_top.confidence)
    \o Emit(dtb.double_bottom.confidence > Conf(7, 10), <<"Double", "Bottom">>, dtb.double_bottom.confidence)
    \o TrianglePatterns(tri)
    \o cp

\* Lines 37-100: the thresholded observations, in detection order.
ThresholdedPatterns(tl, cp, hs, dtb, tri) ==
    Emit(tl.uptrend > Conf(6, 10), <<"Uptrend">>, tl.uptrend)
    \o Emit(tl.downtrend > Conf(6, 10), <<"Downtrend">>, tl.downtrend)
    \o Emit(tl.sideways > Conf(6, 10), <<"Sideways/Consolidation">>, tl.sideways)
    \o Emit(hs.confidence > Conf(7, 10), <<"Head", "and", "Shoulders">>, hs.confidence)
    \o Emit(dtb.double_top.confidence > Conf(7, 10), <<"Double", "Top">>, dtb.double_top.confidence)
    \o Emit(dtb.double_bottom.confidence > Conf(7, 10), <<"Double", "Bottom">>, dtb.double_bottom.confidence)
    \o TrianglePatterns(tri)
    \o cp

\* FallbackPattern without its final else branch.
FallbackPatternNoElse(tl) ==
    LET trend_strength == Max3(tl.uptrend, tl.downtrend, tl.sideways)
    IN  IF tl.uptrend = trend_strength
        THEN <<Pattern(<<"Weak", "Uptrend">>, trend_strength)>>
        ELSE IF tl.downtrend = trend_strength
             THEN <<Pattern(<<"Weak", "Downtrend">>, trend_strength)>>
             ELSE <<>>

\* FallbackPattern tagged with the sideways confidence instead of the largest.
FallbackPatternSidewaysConfidence(tl) ==
    LET trend_strength == Max3(tl.uptrend, tl.downtrend, tl.sideways)
    IN  IF tl.uptrend = trend_strength
        THEN <<Pattern(<<"Weak", "Uptrend">>, tl.sideways)>>
        ELSE IF tl.downtrend = trend_strength
             THEN <<Pattern(<<"Weak", "Downtrend">>, tl.sideways)>>
             ELSE <<Pattern(<<"Neutral", "Market">>, tl.sideways)>>

\* Lines 102-128: the general trend analysis added when nothing was detected.
FallbackPattern(tl) ==
    LET trend_strength == Max3(tl.uptrend, tl.downtrend, tl.sideways)
    IN  IF tl.uptrend = trend_strength
        THEN <<Pattern(<<"Weak", "Uptrend">>, trend_strength)>>
        ELSE IF tl.downtrend = trend_strength
             THEN <<Pattern(<<"Weak", "Downtrend">>, trend_strength)>>
             ELSE <<Pattern(<<"Neutral", "Market">>, trend_strength)>>

\* get_timeframe_multiplier with the 4h step left at the default.
get_timeframe_multiplier_flat(tf) ==
    IF tf = "1m" THEN 80
    ELSE IF tf = "5m" THEN 85
    ELSE IF tf = "15m" THEN 90
    ELSE IF tf = "30m" THEN 95
    ELSE IF tf = "1D" THEN 110
    ELSE IF tf = "1W" THEN 115
    ELSE 100

\* ------------------------------------------------ get_timeframe_multiplier
\* utils.py: the multiplier of a timeframe token, in hundredths.
get_timeframe_multiplier(tf) ==
    IF tf = "1m" THEN 80
    ELSE IF tf = "5m" THEN 85
    ELSE IF tf = "15m" THEN 90
    ELSE IF tf = "30m" THEN 95
    ELSE IF tf = "1h" THEN 100
    ELSE IF tf = "4h" THEN 105
    ELSE IF tf = "1D" THEN 110
    ELSE IF tf = "1W" THEN 115
    ELSE 100

\* tf: the timeframe argument, which the body never reads. The lists are
\* those of the detector results of the image.
identify_patterns(tl, cp, hs, dtb, tri, tf) ==
    LET detected_patterns == ThresholdedPatterns(tl, cp, hs, dtb, tri)
    IN  IF detected_patterns = <<>> THEN FallbackPattern(tl) ELSE detected_patterns

\* ------------------------------------------------ extract_moving_averages
MovingAverageNames == <<"sma_20", "sma_50", "sma_200", "ema_12", "ema_26">>

\* The bound b of np.random.uniform(-b, b) of each average, in thousandths.
MovingAverageSpread ==
    [sma_20 |-> 50, sma_50 |-> 80, sma_200 |-> 150, ema_12 |-> 30, ema_26 |-> 60]

\* simulated_price = 50 + (avg_brightness / 255) * 150, in cents, for a mean
\* brightness of the right-hand strip (the samples give whole cents).
SimulatedPrice(avg_brightness) == 5000 + (avg_brightness * 15000) \div 255

\* u[name] is the outcome of the uniform draw of that average, in thousandths.
extract_moving_averages(avg_brightness, u) ==
    LET simulated_price == SimulatedPrice(avg_brightness)
    IN  [n \in DOMAIN u |->
            LET value == (simulated_price * (1000 + u[n])) \div 1000
            IN  [value |-> value,
                 trend |-> IF value < simulated_price THEN "Bullish" ELSE "Bearish"]]

\* ---------------------------------------------------- extract_oscillators
\* avg_brightness: mean brightness of the bottom third, 0..255.
\* macd_line in hundredths, macd_u and stoch_u in hundredths (the relative
\* offsets drawn for the signal line and for %D), stoch_k in hundredths.
extract_oscillators(avg_brightness, macd_line, macd_u, stoch_k, stoch_u) ==
    LET \* rsi_value in hundredths; the comparisons are on the exact quotient
        rsi_value   == Min2(Max2((avg_brightness * 10000) \div 255, 0), 10000)
        rsi_trend   == IF avg_brightness * 100 > 70 * 255 THEN "Overbought"
                       ELSE IF avg_brightness * 100 < 30 * 255 THEN "Oversold"
                       ELSE "Neutral"
        macd_signal == (macd_line * (100 + macd_u)) \div 100
        d           == (Min2(Max2(stoch_k, 0), 10000) * (100 + stoch_u)) \div 100
        k           == Min2(Max2(stoch_k, 0), 10000)
    IN  [rsi  |-> [value |-> rsi_value, trend |-> rsi_trend],
         macd |-> [line |-> macd_line, signal |-> macd_signal,
                   histogram |-> macd_line - macd_signal,
                   trend |-> IF macd_line > macd_signal THEN "Bullish" ELSE "Bearish"],
         stochastic |-> [k |-> k, d |-> d,
                         trend |-> IF k > 8000 /\ d > 8000 THEN "Overbought"
                                   ELSE IF k < 2000 /\ d < 2000 THEN "Oversold"
                                   ELSE "Neutral"]]

\* ------------------------------------------------ detect_horizontal_lines
\* Hough segments over the edge map (minLineLength = width // 5).
HorizontalSegments ==
    { <<0, 10, 40, 10>>,
      <<0, 22, 40, 28>>,    \* |y2 - y1| < 10: kept, at y = 25
      <<0, 40, 40, 40>>,
      <<0, 70, 40, 70>>,
      <<0, 95, 40, 95>>,
      <<0, 50, 40, 60>> }   \* |y2 - y1| = 10: not horizontal

\* Longest list of Hough segments handed to detect_horizontal_lines.
MaxHorizontal == 4

\* Lines 310-319: keep a line only if it is more than 20 below the last kept one.
RECURSIVE FilterClose(_, _, _)
FilterClose(sorted, i, filtered_lines) ==
    IF i > Len(sorted) THEN filtered_lines
    ELSE IF sorted[i] - filtered_lines[Len(filtered_lines)] > 20
         THEN FilterClose(sorted, i + 1, Append(filtered_lines, sorted[i]))
         ELSE FilterClose(sorted, i + 1, filtered_lines)

detect_horizontal_lines(lines) ==
    LET kept == SelectSeq(lines, LAMBDA l : Abs(l[4] - l[2]) < 10)
        h_lines == [i \in 1..Len(kept) |-> (kept[i][2] + kept[i][4]) \div 2]
    IN  IF h_lines # <<>>
        THEN LET sorted == SortedBy(h_lines, "ascending")
             IN  FilterClose(sorted, 2, <<sorted[1]>>)
        ELSE h_lines

HorizontalLineResults ==
    {detect_horizontal_lines(l) : l \in SeqsUpTo(HorizontalSegments, MaxHorizontal)}

\* --------------------------------------------- extract_support_resistance
\* Rows that scipy.signal.find_peaks can report on the row histogram (sorted,
\* at least height * 0.05 apart).
PeakResults == {<<>>, <<30>>, <<30, 60>>, <<20, 50, 80>>}

\* round(price_min + u * (price_max - price_min), 2) for u in [0, 0.3], and
\* for u in [0.7, 1.0]: the levels the padding can draw, in cents.
SupportDraws == {5000, 7250, 9500}
ResistanceDraws == {15500, 17750, 20000}

\* PriceOf on a price scale that ends at 250.
PriceOfWideScale(y_coord, height) == RoundDiv(5000 * height + (height - y_coord) * 20000, height)

\* round(price, 2) of price = 50 + (1 - y_coord / height) * 150, in cents.
PriceOf(y_coord, height) == RoundDiv(5000 * height + (height - y_coord) * 15000, height)

\* Lines 253-262: lines at even positions are resistance, at odd positions support.
LevelsAt(h_lines, height, parity) ==
    LET picked == SelectSeq([i \in 1..Len(h_lines) |-> i],
                            LAMBDA i : (i - 1) % 2 = parity)
    IN  [j \in 1..Len(picked) |-> PriceOf(h_lines[picked[j]], height)]

\* Lines 265-269: append draws until there are two levels.
Padded(levels, draws) ==
    IF Len(levels) >= 2 THEN levels
    ELSE levels \o SubSeq(draws, 1, 2 - Len(levels))

\* FirstTwoSorted without the sort.
FirstTwoUnsorted(levels, order) == SubSeq(levels, 1, 2)

\* Lines 272-279 for one side: sort, then keep the first two.
FirstTwoSorted(levels, order) == SubSeq(SortedBy(levels, order), 1, 2)

\* lines: the result of detect_horizontal_lines; peaks: the result of find_peaks,
\* read only when lines is empty; the draws: the outcomes of np.random.uniform.
extract_support_resistance(height, lines, peaks, support_draws, resistance_draws) ==
    LET found == IF lines = <<>> THEN SortedBy(peaks, "ascending") ELSE lines
        h_lines  == SortedBy(found, "descending")
        resistance_levels == Padded(LevelsAt(h_lines, height, 0), resistance_draws)
        support_levels    == Padded(LevelsAt(h_lines, height, 1), support_draws)
    IN  [support    |-> FirstTwoSorted(support_levels, "ascending"),
         resistance |-> FirstTwoSorted(resistance_levels, "descending")]

\* ----------------------------------------- generate_rule_based_suggestion
\* 1 if the condition holds, else 0.
One(cond) == IF cond THEN 1 ELSE 0

\* PatternSignal with the triangle patterns counted twice like the others.
PatternSignalTriangleDoubled(pattern) ==
    IF In(<<"Uptrend">>, pattern.name) \/ In(<<"Bullish">>, pattern.name)
       \/ In(<<"Double", "Bottom">>, pattern.name)
    THEN <<2 * pattern.confidence, 0>>
    ELSE IF In(<<"Downtrend">>, pattern.name) \/ In(<<"Bearish">>, pattern.name)
            \/ In(<<"Double", "Top">>, pattern.name)
            \/ In(<<"Head", "and", "Shoulders">>, pattern.name)
         THEN <<0, 2 * pattern.confidence>>
         ELSE IF In(<<"Triangle">>, pattern.name)
              THEN IF In(<<"Ascending">>, pattern.name) THEN <<2 * pattern.confidence, 0>>
                   ELSE IF In(<<"Descending">>, pattern.name) THEN <<0, 2 * pattern.confidence>>
                   ELSE <<0, 0>>
              ELSE <<0, 0>>

\* Lines 191-202: what one pattern adds to each side, as <<bullish, bearish>>.
PatternSignal(pattern) ==
    IF In(<<"Uptrend">>, pattern.name) \/ In(<<"Bullish">>, pattern.name)
       \/ In(<<"Double", "Bottom">>, pattern.name)
    THEN <<2 * pattern.confidence, 0>>
    ELSE IF In(<<"Downtrend">>, pattern.name) \/ In(<<"Bearish">>, pattern.name)
            \/ In(<<"Double", "Top">>, pattern.name)
         THEN <<0, 2 * pattern.confidence>>
         ELSE IF In(<<"Head", "and", "Shoulders">>, pattern.name)
              THEN <<0, 2 * pattern.confidence>>
              ELSE IF In(<<"Triangle">>, pattern.name)
                   THEN IF In(<<"Ascending">>, pattern.name) THEN <<pattern.confidence, 0>>
                        ELSE IF In(<<"Descending">>, pattern.name) THEN <<0, pattern.confidence>>
                        ELSE <<0, 0>>
                   ELSE <<0, 0>>

\* Lines 156-202: the two scores, in units of 1/Scale.
Signals(analysis_results) ==
    LET ind == analysis_results.indicators
        ma    == ind.moving_averages
        rsi   == ind.oscillators.rsi
        macd  == ind.oscillators.macd
        stoch == ind.oscillators.stochastic
        pats  == analysis_results.patterns
    IN  [bullish |->
            Scale * ( SumSeq([i \in 1..Len(MovingAverageNames) |->
                                One(ma[MovingAverageNames[i]].trend = "Bullish")])
                      + 2 * One(rsi.trend = "Oversold")
                      + 2 * One(macd.trend = "Bullish")
                      + One(stoch.trend = "Oversold") )
            + SumSeq([i \in 1..Len(pats) |-> PatternSignal(pats[i])[1]]),
         bearish |->
            Scale * ( SumSeq([i \in 1..Len(MovingAverageNames) |->
                                One(ma[MovingAverageNames[i]].trend = "Bearish")])
                      + 2 * One(rsi.trend = "Overbought")
                      + 2 * One(macd.trend = "Bearish")
                      + One(stoch.trend = "Overbought") )
            + SumSeq([i \in 1..Len(pats) |-> PatternSignal(pats[i])[2]])]

SignalDiff(analysis_results) ==
    Signals(analysis_results).bullish - Signals(analysis_results).bearish

\* ActionOf with the first boundary inclusive.
ActionOfInclusive(diff) ==
    IF diff >= 4 * Scale THEN <<"STRONG", "LONG">>
    ELSE IF diff > 2 * Scale THEN <<"LONG">>
    ELSE IF diff > 0 THEN <<"WEAK", "LONG">>
    ELSE IF diff = 0 THEN <<"NEUTRAL">>
    ELSE IF diff > -2 * Scale THEN <<"WEAK", "SHORT">>
    ELSE IF diff > -4 * Scale THEN <<"SHORT">>
    ELSE <<"STRONG", "SHORT">>

\* ActionOf with the two weaker short bands exchanged.
ActionOfShortBandsSwapped(diff) ==
    IF diff > 4 * Scale THEN <<"STRONG", "LONG">>
    ELSE IF diff > 2 * Scale THEN <<"LONG">>
    ELSE IF diff > 0 THEN <<"WEAK", "LONG">>
    ELSE IF diff = 0 THEN <<"NEUTRAL">>
    ELSE IF diff > -2 * Scale THEN <<"SHORT">>
    ELSE IF diff > -4 * Scale THEN <<"WEAK", "SHORT">>
    ELSE <<"STRONG", "SHORT">>

\* Lines 208-228, on diff in units of 1/Scale.
ActionOf(diff) ==
    IF diff > 4 * Scale THEN <<"STRONG", "LONG">>
    ELSE IF diff > 2 * Scale THEN <<"LONG">>
    ELSE IF diff > 0 THEN <<"WEAK", "LONG">>
    ELSE IF diff = 0 THEN <<"NEUTRAL">>
    ELSE IF diff > -2 * Scale THEN <<"WEAK", "SHORT">>
    ELSE IF diff > -4 * Scale THEN <<"SHORT">>
    ELSE <<"STRONG", "SHORT">>

\* PriceLevels with the entry taken between the first levels of both sides.
PriceLevelsFirstResistance(action, support_resistance) ==
    LET support_levels    == support_resistance.support
        resistance_levels == support_resistance.resistance
        twice_current == support_levels[1] + resistance_levels[1]
    IN  IF In(<<"LONG">>, action)
        THEN [entry_point |-> RoundDiv(twice_current, 2),
              stop_loss   |-> RoundDiv(support_levels[1] * 99, 100),
              take_profit |-> RoundDiv(resistance_levels[1] * 101, 100)]
        ELSE IF In(<<"SHORT">>, action)
             THEN [entry_point |-> RoundDiv(twice_current, 2),
                   stop_loss   |-> RoundDiv(resistance_levels[1] * 101, 100),
                   take_profit |-> RoundDiv(support_levels[1] * 99, 100)]
             ELSE [entry_point |-> RoundDiv(twice_current, 2),
                   stop_loss   |-> RoundDiv(support_levels[1] * 98, 100),
                   take_profit |-> RoundDiv(resistance_levels[1] * 102, 100)]

\* PriceLevels with the stop and target of a SHORT on the sides of a LONG.
PriceLevelsShortAsLong(action, support_resistance) ==
    LET support_levels    == support_resistance.support
        resistance_levels == support_resistance.resistance
        twice_current == support_levels[1] + resistance_levels[Len(resistance_levels)]
    IN  IF In(<<"LONG">>, action) \/ In(<<"SHORT">>, action)
        THEN [entry_point |-> RoundDiv(twice_current, 2),
              stop_loss   |-> RoundDiv(support_levels[1] * 99, 100),
              take_profit |-> RoundDiv(resistance_levels[1] * 101, 100)]
        ELSE [entry_point |-> RoundDiv(twice_current, 2),
              stop_loss   |-> RoundDiv(support_levels[1] * 98, 100),
              take_profit |-> RoundDiv(resistance_levels[1] * 102, 100)]

\* Lines 230-254: the three price levels, in cents.
PriceLevels(action, support_resistance) ==
    LET support_levels    == support_resistance.support
        resistance_levels == support_resistance.resistance
        \* current_price = (support_levels[0] + resistance_levels[-1]) / 2
        twice_current == support_levels[1] + resistance_levels[Len(resistance_levels)]
    IN  IF In(<<"LONG">>, action)
        THEN [entry_point |-> RoundDiv(twice_current, 2),
              stop_loss   |-> RoundDiv(support_levels[1] * 99, 100),
              take_profit |-> RoundDiv(resistance_levels[1] * 101, 100)]
        ELSE IF In(<<"SHORT">>, action)
             THEN [entry_point |-> RoundDiv(twice_current, 2),
                   stop_loss   |-> RoundDiv(resistance_levels[1] * 101, 100),
                   take_profit |-> RoundDiv(support_levels[1] * 99, 100)]
             ELSE [entry_point |-> RoundDiv(twice_current, 2),
                   stop_loss   |-> RoundDiv(support_levels[1] * 98, 100),
                   take_profit |-> RoundDiv(resistance_levels[1] * 102, 100)]

\* Strength with round() in place of int().
StrengthRounded(diff) ==
    IF diff = 0 THEN 0 ELSE Min2(100, RoundDiv(Abs(diff) * 15, Scale))

\* Strength that never gives 0 to a difference other than 0.
StrengthAtLeastOne(diff) ==
    IF diff = 0 THEN 0 ELSE Max2(1, Min2(100, (Abs(diff) * 15) \div Scale))

\* Lines 256-262: int() truncates towards zero.
Strength(diff) ==
    IF diff > 0 THEN Min2(100, (diff * 15) \div Scale)
    ELSE IF diff < 0 THEN Min2(100, (Abs(diff) * 15) \div Scale)
    ELSE 0

\* A rule-based suggestion whose strength is scaled by the timeframe.
generate_rule_based_suggestion_scaled(analysis_results, tf) ==
    LET diff == SignalDiff(analysis_results)
        action == ActionOf(diff)
        levels == PriceLevels(action, analysis_results.indicators.support_resistance)
    IN  [action      |-> action,
         rationale   |-> [template |-> action, timeframe |-> tf],
         entry_point |-> levels.entry_point,
         stop_loss   |-> levels.stop_loss,
         take_profit |-> levels.take_profit,
         strength    |-> (Strength(diff) * get_timeframe_multiplier(tf)) \div 100]

\* A rule-based suggestion whose strength reads the process environment.
generate_rule_based_suggestion_env(analysis_results, tf) ==
    LET diff == SignalDiff(analysis_results)
        action == ActionOf(diff)
        levels == PriceLevels(action, analysis_results.indicators.support_resistance)
    IN  [action      |-> action,
         rationale   |-> [template |-> action, timeframe |-> tf],
         entry_point |-> levels.entry_point,
         stop_loss   |-> levels.stop_loss,
         take_profit |-> levels.take_profit,
         strength    |-> IF environ = "" THEN Strength(diff) ELSE 0]

\* The rationale is the template of the action, filled with the timeframe.
generate_rule_based_suggestion(analysis_results, tf) ==
    LET diff == SignalDiff(analysis_results)
        action == ActionOf(diff)
        levels == PriceLevels(action, analysis_results.indicators.support_resistance)
    IN  [action      |-> action,
         rationale   |-> [template |-> action, timeframe |-> tf],
         entry_point |-> levels.entry_point,
         stop_loss   |-> levels.stop_loss,
         take_profit |-> levels.take_profit,
         strength    |-> Strength(diff)]

\* ------------------------------------------------- generate_ai_suggestion
RequiredFields == <<"action", "rationale", "entry_point", "stop_loss", "take_profit">>

\* An exception is its class and the words of str(e).
Error(type, message) == [type |-> type, message |-> message]

\* str.lower(), word by word, on the words that occur in the messages.
LowerWord(w) ==
    CASE w = "Quota" -> "quota"
      [] w = "Connection" -> "connection"
      [] w = "Request" -> "request"
      [] OTHER -> w
Lower(message) == [i \in 1..Len(message) |-> LowerWord(message[i])]

\* What openai.chat.completions.create can raise.
ApiErrors ==
    { Error("APIConnectionError", <<"Connection", "error.">>),
      Error("APITimeoutError", <<"Request", "timed", "out.">>),
      Error("AuthenticationError", <<"Incorrect", "API", "key", "provided">>),
      Error("RateLimitError", <<"Rate", "limit", "reached">>),
      Error("RateLimitError", <<"You", "exceeded", "your", "current", "quota">>),
      Error("RateLimitError", <<"Quota", "exceeded">>),
      Error("RateLimitError", <<"insufficient_quota">>) }

\* The value of each field a model response can hold.
ResponseValues ==
    [action |-> <<"LONG">>, rationale |-> [template |-> "model", timeframe |-> "model"],
     entry_point |-> 10000, stop_loss |-> 9500, take_profit |-> 11000, strength |-> 40]

\* The action strings a model response can hold: the prompt names the seven
\* terms as examples ("using terms like"), and nothing checks the answer.
ResponseActions == {<<"LONG">>, <<"BUY">>}

\* The JSON objects a model response can hold: any subset of the six fields,
\* and the objects with the five required fields under each action string.
ResponseObjects ==
    { [f \in fields |-> ResponseValues[f]] : fields \in SUBSET DOMAIN ResponseValues }
    \cup { [f \in fields |-> IF f = "action" THEN a ELSE ResponseValues[f]] :
             fields \in {DOMAIN ResponseValues, DOMAIN ResponseValues \ {"strength"}},
             a \in ResponseActions }

\* The outcomes of lines 105-115: the call raises, the content is no JSON
\* (json.loads raises), the response has no choice (IndexError), or the content
\* is a JSON object (response_format is json_object).
Responses ==
    { [kind |-> "raises", error |-> e] : e \in ApiErrors }
    \cup { [kind |-> "raises", error |-> Error("JSONDecodeError", <<"Expecting", "value">>)],
           [kind |-> "raises", error |-> Error("IndexError", <<"list", "index", "out", "of", "range">>)] }
    \cup { [kind |-> "object", object |-> o] : o \in ResponseObjects }

\* No generative call was made.
NoResponse == [kind |-> "none"]

\* A handler that catches ValueError only.
CaughtByExceptValueError(e) == e.type = "ValueError"

\* except Exception: every exception class of the model derives from Exception.
CaughtByExceptException(e) == TRUE

\* A handler that treats every error as a quota error.
IsQuotaErrorAlways(error_msg) == TRUE

\* Line 133.
IsQuotaError(error_msg) ==
    In(<<"quota">>, Lower(error_msg)) \/ In(<<"insufficient_quota">>, error_msg)

\* MissingFields that checks the action field only.
MissingFieldsActionOnly(object) ==
    SelectSeq(<<"action">>, LAMBDA f : f \notin DOMAIN object)

\* Lines 117-121: the first required field that is missing, if any.
MissingFields(object) ==
    SelectSeq(RequiredFields, LAMBDA f : f \notin DOMAIN object)

\* Lines 123-125.
WithStrength(object) ==
    IF "strength" \notin DOMAIN object
    THEN [f \in DOMAIN object \cup {"strength"} |-> IF f = "strength" THEN 75 ELSE object[f]]
    ELSE object

\* Lines 105-127, the body of the try: the value it returns or the exception
\* it raises.
TryBody(resp) ==
    IF resp.kind = "raises" THEN [ok |-> FALSE, error |-> resp.error]
    ELSE IF MissingFields(resp.object) # <<>>
         THEN [ok |-> FALSE,
               error |-> Error("ValueError",
                               <<"Missing", "required", "field:", MissingFields(resp.object)[1]>>)]
         ELSE [ok |-> TRUE, value |-> WithStrength(resp.object)]

\* The result of a call: what it returns (or the exception it raises), whether
\* it called the external service, and the environment variable it leaves.
Returned(value, called, env) ==
    [raised |-> FALSE, value |-> value, attempted |-> called, environ |-> env]
Raised(error, called, env) ==
    [raised |-> TRUE, error |-> error, attempted |-> called, environ |-> env]

\* client: the module's openai; env: os.environ["OPENAI_API_KEY"] at the call;
\* resp: what the external call comes back with, if it is made.
generate_ai_suggestion(analysis_results, tf, client, env, resp) ==
    IF ~client
    THEN Returned(generate_rule_based_suggestion(analysis_results, tf), FALSE, env)
    ELSE LET body == TryBody(resp)
         IN  IF body.ok THEN Returned(body.value, TRUE, env)
             ELSE IF CaughtByExceptException(body.error)
                  THEN Returned(generate_rule_based_suggestion(analysis_results, tf), TRUE,
                                IF IsQuotaError(body.error.message) THEN "" ELSE env)
                  ELSE Raised(body.error, TRUE, env)

\* ------------------------------------------------- get_trading_suggestion
\* key: the module's OPENAI_API_KEY.
get_trading_suggestion(analysis_results, tf, key, client, env, resp) ==
    IF key = ""
    THEN Returned(generate_rule_based_suggestion(analysis_results, tf), FALSE, env)
    ELSE LET r == generate_ai_suggestion(analysis_results, tf, client, env, resp)
         IN  IF r.raised /\ CaughtByExceptException(r.error)
             THEN Returned(generate_rule_based_suggestion(analysis_results, tf),
                           r.attempted, r.environ)
             ELSE r

\* ----------------------------------------------------------- analyze_chart
\* The detector results of one image.
Detection(tl, cp, co, tr) == [tl |-> tl, cp |-> cp, hs |-> co.hs, dtb |-> co.dtb, tr |-> tr]

\* Every combination of detector results.
Detections ==
    { Detection(tl, cp, co, tr) :
        tl \in TrendLineResults, cp \in CandleResults, co \in ContourResults, tr \in TriangleResults }

\* What the detectors return on an edge map with no contour and no segment.
NoContours == [hs |-> detect_head_and_shoulders(<<>>), dtb |-> detect_double_top_bottom(<<>>)]

\* The images of the pipeline runs: any trend lines on an otherwise empty
\* image, or one further detector that found something.
PipelineDetections ==
    { Detection(tl, <<>>, NoContours, DefaultTriangle) : tl \in TrendLineResults }
    \cup { Detection(DefaultTrend, cp, NoContours, DefaultTriangle) : cp \in CandleResults }
    \cup { Detection(DefaultTrend, <<>>, co, DefaultTriangle) : co \in ContourResults }
    \cup { Detection(DefaultTrend, <<>>, NoContours, tr) : tr \in TriangleResults }

\* The draws of the moving averages in which the first k averages come out
\* below the price and the others above it.
PipelineMovingAverages ==
    { extract_moving_averages(102,
          [n \in DOMAIN MovingAverageSpread |->
              IF \E i \in 1..k : MovingAverageNames[i] = n
              THEN -MovingAverageSpread[n] ELSE MovingAverageSpread[n]]) : k \in 0..5 }

PipelineOscillators ==
    { extract_oscillators(b, 150, mu, k, 10) :
        b \in {51, 128, 204}, mu \in {-50, 50}, k \in {1000, 5000, 9000} }

\* The inputs of extract_support_resistance: the filtered Hough lines, the
\* peaks, and two draws for each side.
SupportResistanceInputs ==
    [lines : HorizontalLineResults, peaks : PeakResults,
     support_draws : SupportDraws \X SupportDraws,
     resistance_draws : ResistanceDraws \X ResistanceDraws]

\* The pipeline runs: no line and no peak, two lines, or four lines.
PipelineSupportResistanceInputs ==
    [lines : {<<>>, <<40, 70>>, <<10, 40, 70, 95>>} \cap HorizontalLineResults,
     peaks : {<<>>},
     support_draws : {<<5000, 9500>>},
     resistance_draws : {<<20000, 15500>>, <<15500, 15500>>}]

SupportResistanceOf(i) ==
    extract_support_resistance(ImageShape.height, i.lines, i.peaks,
                               i.support_draws, i.resistance_draws)

\* The lines extract_support_resistance maps to prices.
LinesUsed(i) == IF i.lines = <<>> THEN i.peaks ELSE i.lines

Timeframes == {"1m", "5m", "15m", "30m", "1h", "4h", "1D", "1W"}
\* A token outside the closed set.
UnknownTimeframe == "2h"
\* The tokens a caller can pass: the options, and strings that are none of them.
TimeframeTokens == Timeframes \cup {UnknownTimeframe, "1d", ""}

\* analysis_results as the caller holds it.
analysis_results == [patterns |-> patterns, indicators |-> indicators]

\* ---------------------------------------------------------- session state
\* app.py lines 301-306 and auth.py init_auth: the keys a new session gets.
InitialSessionState ==
    [analysis_complete |-> FALSE,
     analysis_results  |-> None,
     authenticated     |-> FALSE,
     username          |-> None,
     login_error       |-> None,
     signup_error      |-> None]

\* user_database.pkl does not exist yet.
NoUserDatabase == [exists |-> FALSE, users |-> {}]

\* ------------------------------------------------------------- the requests
InitRequest ==
    /\ pc = "idle"
    /\ timeframe = "1h"
    /\ trend_lines = None
    /\ candlestick_patterns = <<>>
    /\ head_and_shoulders = None
    /\ double_top_bottom = None
    /\ triangle_patterns = None
    /\ patterns = <<>>
    /\ horizontal_lines = <<>>
    /\ indicators = None
    /\ image_data = None
    /\ bullish_signals = 0
    /\ bearish_signals = 0
    /\ signal_diff = 0
    /\ suggestion = None
    /\ response = NoResponse
    /\ attempted = FALSE
    /\ raised = FALSE
    /\ first_call = None
    /\ last_call = None
    /\ quota_exceeded = FALSE
    /\ multiplier = None
    /\ previous = None
    /\ session_state = InitialSessionState
    /\ user_database = NoUserDatabase
    /\ now = 0
    /\ auth_call = None
    /\ authenticated_as = None

\* The process was started without a credential.
InitNoCredential ==
    /\ OPENAI_API_KEY = ""
    /\ openai = FALSE
    /\ environ = ""

\* No request yet, in a process without a credential.
Init == InitRequest /\ InitNoCredential

\* The caller takes the result; the locals of the request are gone.
ClearRequest ==
    /\ pc' = "idle"
    /\ timeframe' = "1h"
    /\ trend_lines' = None
    /\ candlestick_patterns' = <<>>
    /\ head_and_shoulders' = None
    /\ double_top_bottom' = None
    /\ triangle_patterns' = None
    /\ patterns' = <<>>
    /\ horizontal_lines' = <<>>
    /\ indicators' = None
    /\ image_data' = None
    /\ bullish_signals' = 0
    /\ bearish_signals' = 0
    /\ signal_diff' = 0
    /\ suggestion' = None
    /\ response' = NoResponse
    /\ attempted' = FALSE
    /\ raised' = FALSE
    /\ first_call' = None
    /\ last_call' = None

\* identify_patterns on the detector results d.
PatternsStep(d, tf) ==
    /\ trend_lines' = d.tl
    /\ candlestick_patterns' = d.cp
    /\ head_and_shoulders' = d.hs
    /\ double_top_bottom' = d.dtb
    /\ triangle_patterns' = d.tr
    /\ patterns' = identify_patterns(d.tl, d.cp, d.hs, d.dtb, d.tr, tf)

\* ---- identify_patterns alone, on every combination of detector results
IdentifyPatterns ==
    /\ pc = "idle"
    /\ \E d \in Detections : PatternsStep(d, timeframe)
    /\ pc' = "patterns"
    /\ UNCHANGED <<timeframe, horizontal_lines, indicators, scoreVars, suggestion,
                   processVars, quota_exceeded, requestVars, callVars, image_data, utilVars, appVars>>

ReturnPatterns ==
    /\ pc = "patterns"
    /\ ClearRequest
    /\ UNCHANGED <<processVars, quota_exceeded, utilVars, appVars>>

NextPatterns == IdentifyPatterns \/ ReturnPatterns

SpecPatterns == Init /\ [][NextPatterns]_vars

\* ---- identify_patterns on preprocessed images
\* What the detectors see of an edge map: the segments HoughLinesP returns to
\* detect_trend_lines (minLineLength 50) and to detect_triangle_patterns
\* (minLineLength 30), and the contours of cv2.findContours.
EdgeMaps ==
    [lines : SeqsUpTo(TrendSegments, 1),
     triangle_lines : {<<>>, <<<<0, 50, 100, 0>>, <<0, 50, 100, 45>>,
                              <<0, 0, 100, 50>>, <<0, 0, 100, 5>>>>},
     contours : {<<>>, <<[area |-> 900, h |-> 30, cx |-> 20, cy |-> 20],
                         [area |-> 800, h |-> 40, cx |-> 60, cy |-> 22],
                         [area |-> 700, h |-> 30, cx |-> 25, cy |-> 80]>>}]

\* chart_analyzer.preprocess_image: the image_data of a request.
PreprocessedImages == [original : CandleImages, edges : EdgeMaps]

\* identify_patterns lines 21-35: the five detectors on one image.
DetectorsOn(image) ==
    Detection(detect_trend_lines(image.edges.lines),
              detect_candlestick_patterns(image.original),
              [hs  |-> detect_head_and_shoulders(image.edges.contours),
               dtb |-> detect_double_top_bottom(image.edges.contours)],
              detect_triangle_patterns(image.edges.triangle_lines))

DetectPatterns ==
    /\ pc = "idle"
    /\ \E image \in PreprocessedImages :
          /\ image_data' = image
          /\ PatternsStep(DetectorsOn(image), timeframe)
    /\ pc' = "patterns"
    /\ UNCHANGED <<timeframe, horizontal_lines, indicators, scoreVars, suggestion,
                   processVars, quota_exceeded, requestVars, callVars, utilVars, appVars>>

NextDetect == DetectPatterns \/ ReturnPatterns

SpecDetect == Init /\ [][NextDetect]_vars

\* ---- extract_support_resistance alone, on every input
ExtractSupportResistance ==
    /\ pc = "idle"
    /\ \E i \in SupportResistanceInputs :
          /\ horizontal_lines' = LinesUsed(i)
          /\ indicators' = [support_resistance |-> SupportResistanceOf(i)]
    /\ pc' = "levels"
    /\ UNCHANGED <<timeframe, detectorVars, patterns, scoreVars, suggestion,
                   processVars, quota_exceeded, requestVars, callVars, image_data, utilVars, appVars>>

ReturnLevels ==
    /\ pc = "levels"
    /\ ClearRequest
    /\ UNCHANGED <<processVars, quota_exceeded, utilVars, appVars>>

NextLevels == ExtractSupportResistance \/ ReturnLevels

SpecLevels == Init /\ [][NextLevels]_vars

\* ---- extract_oscillators alone
\* Mean brightness of the bottom third (0..255, around the RSI thresholds at
\* 76.5 and 178.5), the MACD line and the offset of its signal line, and the
\* stochastic draws: k over [0, 100] and the offset of d over [-0.2, 0.2].
OscillatorInputs ==
    [avg_brightness : {0, 51, 76, 77, 128, 178, 179, 204, 255},
     macd_line : {-200, 150},
     macd_u : {-50, 50},
     stoch_k : {0, 1000, 2000, 5000, 8000, 9000, 10000},
     stoch_u : {-20, 0, 20}]

ExtractOscillators ==
    /\ pc = "idle"
    /\ \E i \in OscillatorInputs :
          indicators' = [oscillators |->
                            extract_oscillators(i.avg_brightness, i.macd_line, i.macd_u,
                                                i.stoch_k, i.stoch_u)]
    /\ pc' = "oscillators"
    /\ UNCHANGED <<timeframe, detectorVars, patterns, horizontal_lines, scoreVars, suggestion,
                   processVars, quota_exceeded, requestVars, callVars, image_data, utilVars, appVars>>

ReturnOscillators ==
    /\ pc = "oscillators"
    /\ ClearRequest
    /\ UNCHANGED <<processVars, quota_exceeded, utilVars, appVars>>

NextOscillators == ExtractOscillators \/ ReturnOscillators

SpecOscillators == Init /\ [][NextOscillators]_vars

\* ---- get_timeframe_multiplier alone
\* A caller asks for the multiplier of a token; the previous answer is kept
\* beside the current one.
GetTimeframeMultiplier ==
    /\ \E tf \in TimeframeTokens :
          multiplier' = [timeframe |-> tf, value |-> get_timeframe_multiplier(tf)]
    /\ previous' = multiplier
    /\ UNCHANGED <<pc, timeframe, image_data, detectorVars, analysisVars, horizontal_lines,
                   scoreVars, suggestion, processVars, requestVars, callVars, quota_exceeded,
                   appVars>>

NextTimeframes == GetTimeframeMultiplier

SpecTimeframes == Init /\ [][NextTimeframes]_vars

\* ---- detect_trend_lines alone
\* The detector on the segments HoughLinesP found in the edge map.
DetectTrendLines ==
    /\ pc = "idle"
    /\ \E lines \in HoughLines :
          /\ image_data' = [edges |-> [lines |-> lines]]
          /\ trend_lines' = detect_trend_lines(lines)
    /\ pc' = "trend"
    /\ UNCHANGED <<timeframe, candlestick_patterns, head_and_shoulders, double_top_bottom,
                   triangle_patterns, analysisVars, horizontal_lines, scoreVars, suggestion,
                   processVars, quota_exceeded, requestVars, callVars, utilVars, appVars>>

ReturnTrendLines ==
    /\ pc = "trend"
    /\ ClearRequest
    /\ UNCHANGED <<processVars, quota_exceeded, utilVars, appVars>>

NextTrend == DetectTrendLines \/ ReturnTrendLines

SpecTrend == Init /\ [][NextTrend]_vars

\* ---- analyze_chart followed by generate_rule_based_suggestion
AnalyzeChart ==
    /\ pc = "idle"
    /\ \E tf \in {"1h", UnknownTimeframe}, d \in PipelineDetections,
          ma \in PipelineMovingAverages, osc \in PipelineOscillators,
          i \in PipelineSupportResistanceInputs :
          /\ timeframe' = tf
          /\ PatternsStep(d, tf)
          /\ horizontal_lines' = LinesUsed(i)
          /\ indicators' = [moving_averages |-> ma, oscillators |-> osc,
                            support_resistance |-> SupportResistanceOf(i)]
    /\ pc' = "analyzed"
    /\ UNCHANGED <<scoreVars, suggestion, processVars, quota_exceeded, requestVars, callVars, image_data, utilVars, appVars>>

RuleBasedSuggestion ==
    /\ pc = "analyzed"
    /\ bullish_signals' = Signals(analysis_results).bullish
    /\ bearish_signals' = Signals(analysis_results).bearish
    /\ signal_diff' = SignalDiff(analysis_results)
    /\ suggestion' = generate_rule_based_suggestion(analysis_results, timeframe)
    /\ pc' = "suggested"
    /\ UNCHANGED <<timeframe, detectorVars, analysisVars, horizontal_lines,
                   processVars, quota_exceeded, requestVars, callVars, image_data, utilVars, appVars>>

Return ==
    /\ pc = "suggested"
    /\ ClearRequest
    /\ UNCHANGED <<processVars, quota_exceeded, utilVars, appVars>>

Next == AnalyzeChart \/ RuleBasedSuggestion \/ Return

Spec == Init /\ [][Next]_vars

\* ---- the same pipeline on images where two detectors found something
\* Trend lines together with contours: the pattern list can hold a trend
\* observation and a head-and-shoulders or double top / bottom.
CombinedDetections ==
    { Detection(tl, <<>>, co, DefaultTriangle) :
        tl \in TrendLineResults \ {DefaultTrend}, co \in ContourResults \ {NoContours} }

AnalyzeCombined ==
    /\ pc = "idle"
    /\ \E d \in CombinedDetections, ma \in PipelineMovingAverages, osc \in PipelineOscillators,
          i \in { j \in PipelineSupportResistanceInputs :
                    j.lines = <<>> /\ j.resistance_draws = <<20000, 15500>> } :
          /\ PatternsStep(d, timeframe)
          /\ horizontal_lines' = LinesUsed(i)
          /\ indicators' = [moving_averages |-> ma, oscillators |-> osc,
                            support_resistance |-> SupportResistanceOf(i)]
    /\ pc' = "analyzed"
    /\ UNCHANGED <<timeframe, scoreVars, suggestion, processVars, quota_exceeded, requestVars,
                   callVars, image_data, utilVars, appVars>>

NextCombined == AnalyzeCombined \/ RuleBasedSuggestion \/ Return

SpecCombined == Init /\ [][NextCombined]_vars

\* ---- the app process: the sidebar, and requests through get_trading_suggestion
\* The credentials a user can enter or the process can start with.
ApiKeys == {"sk-test"}

\* Import of ai_suggestions (lines 5-15): the key is read once, and the client
\* exists only if there is a key and OpenAI(api_key=...) did not raise.
InitProcess ==
    /\ environ \in {""} \cup ApiKeys
    /\ OPENAI_API_KEY = environ
    /\ openai \in (IF environ = "" THEN {FALSE} ELSE {TRUE, FALSE})

\* The analyses of the requests of this process.
ProcessAnalyses(tf) ==
    { [patterns   |-> identify_patterns(d.tl, d.cp, d.hs, d.dtb, d.tr, tf),
       indicators |-> [moving_averages |-> ma, oscillators |-> osc,
                       support_resistance |-> SupportResistanceOf(i)]] :
        d \in { Detection(tl, <<>>, NoContours, DefaultTriangle) :
                  tl \in {DefaultTrend, detect_trend_lines(<<<<0, 40, 60, 10>>>>)} },
        ma \in { m \in PipelineMovingAverages :
                   m.sma_20.trend = m.ema_26.trend },
        osc \in {extract_oscillators(128, 150, -50, 5000, 10)},
        i \in { j \in PipelineSupportResistanceInputs :
                  j.lines = <<>> /\ j.resistance_draws = <<20000, 15500>> } }

\* app.py lines 349: analyze_chart, as the request's first call.
AnalyzeRequest ==
    /\ pc = "idle"
    /\ \E tf \in {"1h", UnknownTimeframe} : \E a \in ProcessAnalyses(tf) :
          /\ timeframe' = tf
          /\ patterns' = a.patterns
          /\ indicators' = a.indicators
    /\ pc' = "analyzed"
    /\ UNCHANGED <<detectorVars, horizontal_lines, scoreVars, suggestion,
                   processVars, quota_exceeded, requestVars, callVars, image_data, utilVars, appVars>>

\* app.py line 350: get_trading_suggestion, whatever the external call does.
GetTradingSuggestion ==
    /\ pc = "analyzed"
    /\ \E resp \in Responses :
          LET r == get_trading_suggestion(analysis_results, timeframe,
                                          OPENAI_API_KEY, openai, environ, resp)
          IN  /\ raised' = r.raised
              /\ suggestion' = IF r.raised THEN None ELSE r.value
              /\ attempted' = r.attempted
              /\ response' = IF r.attempted THEN resp ELSE NoResponse
              /\ environ' = r.environ
              /\ quota_exceeded' = (\/ quota_exceeded
                                    \/ /\ r.attempted
                                       /\ resp.kind = "raises"
                                       /\ IsQuotaError(resp.error.message))
    /\ pc' = "suggested"
    /\ UNCHANGED <<timeframe, detectorVars, analysisVars, horizontal_lines, scoreVars,
                   OPENAI_API_KEY, openai, callVars, image_data, utilVars, appVars>>

\* A direct call of generate_rule_based_suggestion on the request's analysis,
\* before or after get_trading_suggestion.
CallRuleBased ==
    /\ pc \in {"analyzed", "suggested"}
    /\ LET call == [result |-> generate_rule_based_suggestion(analysis_results, timeframe),
                    environ |-> environ]
       IN  /\ last_call' = call
           /\ first_call' = IF first_call = None THEN call ELSE first_call
    /\ UNCHANGED <<pc, timeframe, detectorVars, analysisVars, horizontal_lines, scoreVars,
                   suggestion, processVars, quota_exceeded, requestVars, image_data, utilVars, appVars>>

\* app.py lines 245-252: no key in the environment, the user enters one.
SidebarEnterKey ==
    /\ environ = ""
    /\ \E api_key_input \in ApiKeys : environ' = api_key_input
    /\ UNCHANGED <<pc, timeframe, detectorVars, analysisVars, horizontal_lines, scoreVars,
                   suggestion, OPENAI_API_KEY, openai, quota_exceeded, requestVars, callVars, image_data, utilVars, appVars>>

\* app.py lines 253-257: a key in the environment, the user clears it.
SidebarClearKey ==
    /\ environ # ""
    /\ environ' = ""
    /\ UNCHANGED <<pc, timeframe, detectorVars, analysisVars, horizontal_lines, scoreVars,
                   suggestion, OPENAI_API_KEY, openai, quota_exceeded, requestVars, callVars, image_data, utilVars, appVars>>

ReturnRequest ==
    /\ pc = "suggested"
    /\ ClearRequest
    /\ UNCHANGED <<processVars, quota_exceeded, utilVars, appVars>>

NextProcess ==
    \/ AnalyzeRequest
    \/ GetTradingSuggestion
    \/ CallRuleBased
    \/ SidebarEnterKey
    \/ SidebarClearKey
    \/ ReturnRequest

InitApp == InitRequest /\ InitProcess

SpecProcess == InitApp /\ [][NextProcess]_vars

\* ---- the app session: Analyze clicks and what they store
\* app.py lines 353-357: the record stored in the session.
StoredResults(analysis, trading_suggestion) ==
    [patterns           |-> analysis.patterns,
     indicators         |-> analysis.indicators,
     trading_suggestion |-> trading_suggestion]

\* A handler that stores and completes whether or not the analysis raised.
SessionAfterAnalyzeAlways(session, failed, results) ==
    [session EXCEPT !.analysis_results = results, !.analysis_complete = TRUE]

\* app.py lines 348-361: the try block stores the results and sets
\* analysis_complete only after both calls returned; the except branch
\* reports the error and stores nothing.
SessionAfterAnalyze(session, failed, results) ==
    IF failed THEN session
    ELSE [session EXCEPT !.analysis_results = results, !.analysis_complete = TRUE]

\* app.py line 349: analyze_chart raises (cv2 or scipy rejects the image).
AnalyzeChartRaises ==
    /\ pc = "idle"
    /\ raised' = TRUE
    /\ pc' = "failed"
    /\ UNCHANGED <<timeframe, detectorVars, analysisVars, horizontal_lines, scoreVars, suggestion,
                   processVars, quota_exceeded, response, attempted, callVars, image_data,
                   utilVars, appVars>>

\* app.py lines 352-361: the end of the handler, after the suggestion or in
\* the except branch.
FinishAnalyze ==
    /\ pc \in {"suggested", "failed"}
    /\ session_state' = SessionAfterAnalyze(session_state, raised,
                                            StoredResults(analysis_results, suggestion))
    /\ ClearRequest
    /\ UNCHANGED <<processVars, quota_exceeded, utilVars, user_database, now, auth_call,
                   authenticated_as>>

NextSession ==
    \/ AnalyzeRequest
    \/ AnalyzeChartRaises
    \/ GetTradingSuggestion
    \/ FinishAnalyze

SpecSession == InitApp /\ [][NextSession]_vars

\* ---- auth.py: signup, login and logout, one call at a time
\* The most timestamps datetime.now() hands out in a run.
MaxClock == 3

Usernames == {"alice", "bob"}
Passwords == {"secret1", "secret2"}
Emails    == {"a@example.com", "b@example.com"}

\* hashlib.sha256(password.encode()).hexdigest(): the digest is not the
\* password, and distinct sample passwords have distinct digests.
hash_password(password) == <<"sha256", password>>

\* The dictionary of users is the set of its entries, one per username.
load_users(file) == IF file.exists THEN file.users ELSE {}

save_users(users) == [exists |-> TRUE, users |-> users]

\* users[username] = entry
WithUser(users, entry) == {e \in users : e.username # entry.username} \cup {entry}

\* signup that checks the username only.
signup_username_only(username, password, email, file, session, t) ==
    LET users == load_users(file)
    IN  IF \E e \in users : e.username = username
        THEN [result |-> FALSE, file |-> file, now |-> t,
              session |-> [session EXCEPT !.signup_error =
                                  "Username already exists. Please choose another."]]
        ELSE [result |-> TRUE, now |-> t + 1, session |-> session,
              file |-> save_users(WithUser(users,
                          [username |-> username, password_hash |-> hash_password(password),
                           email |-> email, created_at |-> t, last_login |-> None]))]

\* Lines 41-75. t: the clock; the result carries the file, the session and
\* the clock after the call.
signup(username, password, email, file, session, t) ==
    LET users == load_users(file)
    IN  IF \E e \in users : e.username = username
        THEN [result |-> FALSE, file |-> file, now |-> t,
              session |-> [session EXCEPT !.signup_error =
                                  "Username already exists. Please choose another."]]
        ELSE IF \E e \in users : e.email = email
             THEN [result |-> FALSE, file |-> file, now |-> t,
                   session |-> [session EXCEPT !.signup_error =
                              "Email already registered. Please use another email."]]
             ELSE [result |-> TRUE, now |-> t + 1, session |-> session,
                   file |-> save_users(WithUser(users,
                               [username |-> username, password_hash |-> hash_password(password),
                                email |-> email, created_at |-> t, last_login |-> None]))]

\* Lines 77-109.
login(username, password, file, session, t) ==
    LET users == load_users(file)
    IN  IF ~(\E e \in users : e.username = username)
        THEN [result |-> FALSE, file |-> file, now |-> t,
              session |-> [session EXCEPT !.login_error = "Invalid username or password"]]
        ELSE LET user == CHOOSE e \in users : e.username = username
             IN  IF user.password_hash # hash_password(password)
                 THEN [result |-> FALSE, file |-> file, now |-> t,
                       session |-> [session EXCEPT !.login_error = "Invalid username or password"]]
                 ELSE [result |-> TRUE, now |-> t + 1,
                       file |-> save_users(WithUser(users, [user EXCEPT !.last_login = t])),
                       session |-> [session EXCEPT !.authenticated = TRUE,
                                                   !.username = username,
                                                   !.login_error = None]]

\* Lines 111-114.
logout(session) == [session EXCEPT !.authenticated = FALSE, !.username = None]

Signup ==
    /\ now < MaxClock
    /\ \E username \in Usernames, password \in Passwords, email \in Emails :
          LET r == signup(username, password, email, user_database, session_state, now)
          IN  /\ user_database' = r.file
              /\ session_state' = r.session
              /\ now' = r.now
              /\ auth_call' = [op |-> "signup", username |-> username, password |-> password,
                               email |-> email, result |-> r.result,
                               before |-> load_users(user_database)]
    /\ UNCHANGED <<pc, timeframe, image_data, detectorVars, analysisVars, horizontal_lines,
                   scoreVars, suggestion, processVars, requestVars, callVars, quota_exceeded,
                   utilVars, authenticated_as>>

Login ==
    /\ now < MaxClock
    /\ \E username \in Usernames, password \in Passwords :
          LET r == login(username, password, user_database, session_state, now)
          IN  /\ user_database' = r.file
              /\ session_state' = r.session
              /\ now' = r.now
              /\ auth_call' = [op |-> "login", username |-> username, password |-> password,
                               email |-> "", result |-> r.result,
                               before |-> load_users(user_database)]
              /\ authenticated_as' =
                    IF r.result
                    THEN [username |-> username, password_hash |-> hash_password(password)]
                    ELSE authenticated_as
    /\ UNCHANGED <<pc, timeframe, image_data, detectorVars, analysisVars, horizontal_lines,
                   scoreVars, suggestion, processVars, requestVars, callVars, quota_exceeded,
                   utilVars>>

Logout ==
    /\ session_state' = logout(session_state)
    /\ auth_call' = [op |-> "logout", username |-> "", password |-> "", email |-> "",
                     result |-> TRUE, before |-> load_users(user_database)]
    /\ UNCHANGED <<pc, timeframe, image_data, detectorVars, analysisVars, horizontal_lines,
                   scoreVars, suggestion, processVars, requestVars, callVars, quota_exceeded,
                   utilVars, user_database, now, authenticated_as>>

NextAuth == Signup \/ Login \/ Logout

SpecAuth == Init /\ [][NextAuth]_vars

\* ======================================================================
\* Properties
\* ======================================================================

\* The suggestion of the request, once it is made.
Suggested == pc = "suggested"

\* ----------------------------------------------------------------- C1
\* C1: the action of the rule-based suggestion follows the signal difference
\* d = bullish - bearish by these thresholds: d > 4 gives STRONG LONG,
\* 2 < d <= 4 LONG, 0 < d <= 2 WEAK LONG, d = 0 NEUTRAL, -2 < d < 0 WEAK
\* SHORT, -4 < d <= -2 SHORT and d <= -4 STRONG SHORT. In particular 4 is
\* LONG, 2 is WEAK LONG, -2 is SHORT and -4 is STRONG SHORT.
C1_ActionThresholds ==
    Suggested =>
        LET d == signal_diff
            action == suggestion.action
        IN  /\ d > 4 * Scale => action = <<"STRONG", "LONG">>
            /\ (2 * Scale < d /\ d <= 4 * Scale) => action = <<"LONG">>
            /\ (0 < d /\ d <= 2 * Scale) => action = <<"WEAK", "LONG">>
            /\ d = 0 => action = <<"NEUTRAL">>
            /\ (-2 * Scale < d /\ d < 0) => action = <<"WEAK", "SHORT">>
            /\ (-4 * Scale < d /\ d <= -2 * Scale) => action = <<"SHORT">>
            /\ d <= -4 * Scale => action = <<"STRONG", "SHORT">>

\* A suggestion made on the boundary d = 4.
C1_Witness ==
    /\ Suggested
    /\ signal_diff = 4 * Scale
    /\ suggestion.action = <<"LONG">>

\* ----------------------------------------------------------------- C3
\* C3: a rule-based LONG-family suggestion (STRONG LONG, LONG, WEAK LONG)
\* made on levels with support[0] < resistance[0] has
\* stop_loss < entry_point < take_profit.
C3_LongLevelsOrdered ==
    (/\ Suggested
     /\ In(<<"LONG">>, suggestion.action)
     /\ indicators.support_resistance.support[1]
          < indicators.support_resistance.resistance[1])
    => /\ suggestion.stop_loss < suggestion.entry_point
       /\ suggestion.entry_point < suggestion.take_profit

\* ----------------------------------------------------------------- C4
\* C4 as stated: the strength of the rule-based suggestion is
\* min(100, round(15 * |d|)), and 0 when d = 0.
C4_StrengthRounded ==
    Suggested =>
        suggestion.strength
          = (IF signal_diff = 0 THEN 0
             ELSE Min2(100, RoundDiv(15 * Abs(signal_diff), Scale)))

\* C4: the strength of the rule-based suggestion is min(100, 15 * |d|
\* truncated to an integer), and 0 when d = 0: it is an integer of 0..100,
\* below 100 it is the integer part of 15 * |d|, and it is 100 when
\* 15 * |d| >= 100. d = 6 gives 90.
C4_StrengthTruncated ==
    Suggested =>
        LET s == suggestion.strength
            p == 15 * Abs(signal_diff)
        IN  /\ s \in 0..100
            /\ signal_diff = 0 => s = 0
            /\ s < 100 => (s * Scale <= p /\ p < (s + 1) * Scale)
            /\ s = 100 => p >= 100 * Scale
            /\ Abs(signal_diff) = 6 * Scale => s = 90

\* A suggestion whose 15 * |d| has a fractional part of a half or more.
C4_Witness ==
    /\ Suggested
    /\ suggestion.strength < 100
    /\ 2 * (15 * Abs(signal_diff) - suggestion.strength * Scale) >= Scale

\* ----------------------------------------------------------------- C7
\* C7: identify_patterns returns at least one pattern, whatever the
\* detectors found.
C7_PatternsNonEmpty == pc = "patterns" => Len(patterns) >= 1

\* No detector passed its threshold and no trend dominates: the list is the
\* neutral fallback.
C7_Witness ==
    /\ pc = "patterns"
    /\ ThresholdedPatterns(trend_lines, candlestick_patterns, head_and_shoulders,
                           double_top_bottom, triangle_patterns) = <<>>
    /\ patterns[1].name = <<"Neutral", "Market">>

GenerativeFailure ==
    \/ OPENAI_API_KEY # "" /\ ~openai
    \/ /\ attempted
       /\ \/ response.kind = "raises"
          \/ /\ response.kind = "object"
             /\ \E i \in 1..Len(RequiredFields) :
                   RequiredFields[i] \notin DOMAIN response.object

\* C2: when the generative path fails in any way, get_trading_suggestion
\* raises nothing and returns the rule-based suggestion of the same analysis
\* and timeframe.
C2_FailureFallsBack ==
    (Suggested /\ GenerativeFailure) =>
        /\ ~raised
        /\ suggestion = generate_rule_based_suggestion(analysis_results, timeframe)

\* The external call timed out and the request still got a suggestion.
C2_Witness ==
    /\ Suggested
    /\ attempted
    /\ response.kind = "raises"
    /\ response.error.type = "APITimeoutError"
    /\ suggestion = generate_rule_based_suggestion(analysis_results, timeframe)

\* ----------------------------------------------------------------- C5
\* C5: get_trading_suggestion attempts the external generative call exactly
\* when a credential is configured in the environment at the time of the
\* call.
C5_AttemptIffCredential ==
    [][(pc = "analyzed" /\ pc' = "suggested") => (attempted' <=> environ # "")]_vars

\* ----------------------------------------------------------------- C6
\* C6: a parsed model response is returned only if it has all of action,
\* rationale, entry_point, stop_loss and take_profit; then it is returned
\* with its own strength, or with strength 75 if it has none. A response that
\* lacks one of the five is replaced by the rule-based suggestion.
C6_RequiredFields ==
    (Suggested /\ attempted /\ response.kind = "object") =>
        LET object == response.object
        IN  IF \A i \in 1..Len(RequiredFields) : RequiredFields[i] \in DOMAIN object
            THEN /\ \A f \in DOMAIN object : suggestion[f] = object[f]
                 /\ DOMAIN suggestion = DOMAIN object \cup {"strength"}
                 /\ "strength" \notin DOMAIN object => suggestion.strength = 75
            ELSE suggestion = generate_rule_based_suggestion(analysis_results, timeframe)

\* A response with the five required fields and no strength was accepted.
C6_Witness ==
    /\ Suggested
    /\ attempted
    /\ response.kind = "object"
    /\ DOMAIN response.object = {"action", "rationale", "entry_point", "stop_loss", "take_profit"}
    /\ suggestion.strength = 75
    /\ suggestion.action = response.object.action

QuotaText(message) ==
    \E i \in 1..Len(message) : message[i] \in {"quota", "Quota", "insufficient_quota"}

\* C10 as stated: a call of get_trading_suggestion changes nothing that
\* outlives the call.
C10_NoSharedStateChange ==
    [][(pc = "analyzed" /\ pc' = "suggested") => processVars' = processVars]_vars

\* C10: a call of get_trading_suggestion changes nothing that outlives the
\* call, with one exception: when the generative call fails with an error
\* whose text names a quota, the OPENAI_API_KEY environment variable of the
\* process is set to the empty string.
C10_OnlyQuotaClearsEnviron ==
    [][(pc = "analyzed" /\ pc' = "suggested") =>
          /\ OPENAI_API_KEY' = OPENAI_API_KEY
          /\ openai' = openai
          /\ IF attempted' /\ response'.kind = "raises" /\ QuotaText(response'.error.message)
             THEN environ' = ""
             ELSE environ' = environ]_vars

\* A quota error emptied the environment variable; the module's key is as it
\* was.
C10_Witness ==
    /\ Suggested
    /\ attempted
    /\ response.kind = "raises"
    /\ QuotaText(response.error.message)
    /\ environ = ""
    /\ OPENAI_API_KEY # ""

\* ---------------------------------------------------------------- C11
\* What the documentation has one pattern add to the bullish score.
DocumentedBullish(pattern) ==
    IF \/ In(<<"Uptrend">>, pattern.name)
       \/ In(<<"Bullish">>, pattern.name)
       \/ In(<<"Double", "Bottom">>, pattern.name)
    THEN 2 * pattern.confidence
    ELSE IF In(<<"Triangle">>, pattern.name) /\ In(<<"Ascending">>, pattern.name)
         THEN pattern.confidence
         ELSE 0

\* What the documentation has one pattern add to the bearish score.
DocumentedBearish(pattern) ==
    IF \/ In(<<"Downtrend">>, pattern.name)
       \/ In(<<"Bearish">>, pattern.name)
       \/ In(<<"Double", "Top">>, pattern.name)
       \/ In(<<"Head", "and", "Shoulders">>, pattern.name)
    THEN 2 * pattern.confidence
    ELSE IF In(<<"Triangle">>, pattern.name) /\ In(<<"Descending">>, pattern.name)
         THEN pattern.confidence
         ELSE 0

\* C11: the two scores of generate_rule_based_suggestion are the documented
\* sums: 1 per moving average on the side of its trend; 2 for RSI (Oversold
\* bullish, Overbought bearish); 2 for MACD (Bullish, Bearish); 1 for the
\* stochastic (Oversold bullish, Overbought bearish); per pattern twice its
\* confidence on the side its name names, a triangle's confidence once
\* (Ascending bullish, Descending bearish), and nothing for any other pattern.
C11_DocumentedScores ==
    Suggested =>
        LET ma    == indicators.moving_averages
            osc   == indicators.oscillators
            count(trend) == Cardinality({n \in DOMAIN ma : ma[n].trend = trend})
        IN  /\ bullish_signals
                 = Scale * ( count("Bullish")
                             + (IF osc.rsi.trend = "Oversold" THEN 2 ELSE 0)
                             + (IF osc.macd.trend = "Bullish" THEN 2 ELSE 0)
                             + (IF osc.stochastic.trend = "Oversold" THEN 1 ELSE 0) )
                   + SumSeq([i \in 1..Len(patterns) |-> DocumentedBullish(patterns[i])])
            /\ bearish_signals
                 = Scale * ( count("Bearish")
                             + (IF osc.rsi.trend = "Overbought" THEN 2 ELSE 0)
                             + (IF osc.macd.trend = "Bearish" THEN 2 ELSE 0)
                             + (IF osc.stochastic.trend = "Overbought" THEN 1 ELSE 0) )
                   + SumSeq([i \in 1..Len(patterns) |-> DocumentedBearish(patterns[i])])
            /\ signal_diff = bullish_signals - bearish_signals

\* A suggestion scored on a descending triangle, with the stochastic
\* overbought and the RSI oversold.
C11_Witness ==
    /\ Suggested
    /\ \E i \in 1..Len(patterns) : patterns[i].name = <<"Descending", "Triangle">>
    /\ indicators.oscillators.stochastic.trend = "Overbought"
    /\ indicators.oscillators.rsi.trend = "Oversold"

\* ---------------------------------------------------------------- C12
\* The seven actions, by family.
LongActions  == {<<"STRONG", "LONG">>, <<"LONG">>, <<"WEAK", "LONG">>}
ShortActions == {<<"STRONG", "SHORT">>, <<"SHORT">>, <<"WEAK", "SHORT">>}

\* cents is num / den rounded to the nearest cent.
NearestCent(cents, num, den) ==
    /\ 2 * (cents * den - num) <= den
    /\ 2 * (num - cents * den) <= den

\* C12: in every rule-based suggestion entry_point is
\* (support[0] + resistance[-1]) / 2; a LONG action has stop_loss
\* support[0] * 0.99 and take_profit resistance[0] * 1.01, a SHORT action
\* stop_loss resistance[0] * 1.01 and take_profit support[0] * 0.99, NEUTRAL
\* stop_loss support[0] * 0.98 and take_profit resistance[0] * 1.02; each is
\* rounded to two decimals.
C12_PriceLevels ==
    Suggested =>
        LET support    == indicators.support_resistance.support
            resistance == indicators.support_resistance.resistance
            s == suggestion
        IN  /\ NearestCent(s.entry_point, support[1] + resistance[Len(resistance)], 2)
            /\ s.action \in LongActions =>
                  /\ NearestCent(s.stop_loss, 99 * support[1], 100)
                  /\ NearestCent(s.take_profit, 101 * resistance[1], 100)
            /\ s.action \in ShortActions =>
                  /\ NearestCent(s.stop_loss, 101 * resistance[1], 100)
                  /\ NearestCent(s.take_profit, 99 * support[1], 100)
            /\ s.action = <<"NEUTRAL">> =>
                  /\ NearestCent(s.stop_loss, 98 * support[1], 100)
                  /\ NearestCent(s.take_profit, 102 * resistance[1], 100)

\* A SHORT suggestion on levels whose two resistances differ.
C12_Witness ==
    /\ Suggested
    /\ suggestion.action \in ShortActions
    /\ indicators.support_resistance.resistance[1]
         # indicators.support_resistance.resistance[2]
    /\ suggestion.stop_loss > suggestion.take_profit

\* ---------------------------------------------------------------- C13
\* A suggestion without its rationale.
Numbers(s) ==
    [f \in {"action", "entry_point", "stop_loss", "take_profit", "strength"} |-> s[f]]

\* C13: the timeframe token changes no result: for the analysis of the
\* request, generate_rule_based_suggestion returns the same action,
\* entry_point, stop_loss, take_profit and strength under every token, known
\* or not (only the rationale names the token), and identify_patterns returns
\* the same patterns under every token; an unknown token yields a suggestion
\* like any other.
C13_TimeframeIndependent ==
    /\ pc \in {"analyzed", "suggested"} =>
          \A tf \in TimeframeTokens :
             identify_patterns(trend_lines, candlestick_patterns, head_and_shoulders,
                               double_top_bottom, triangle_patterns, tf) = patterns
    /\ Suggested =>
          \A tf \in TimeframeTokens :
             LET s == generate_rule_based_suggestion(analysis_results, tf)
             IN  /\ Numbers(s) = Numbers(suggestion)
                 /\ s.rationale.timeframe = tf

\* A suggestion made for a token outside the options.
C13_Witness ==
    /\ Suggested
    /\ timeframe = UnknownTimeframe
    /\ suggestion.rationale.timeframe = UnknownTimeframe
    /\ suggestion.strength > 0

\* ---------------------------------------------------------------- C14
\* C14: every suggestion get_trading_suggestion returns, from the model
\* response or from the rule-based aggregator, has one of the seven actions
\* STRONG LONG, LONG, WEAK LONG, NEUTRAL, WEAK SHORT, SHORT, STRONG SHORT.
C14_ActionInSevenLevels ==
    (Suggested /\ ~raised) =>
        suggestion.action \in LongActions \cup ShortActions \cup {<<"NEUTRAL">>}

\* ---------------------------------------------------------------- C15
\* The edge map of the request's image has no line segment and no contour.
EmptyEdgeMap ==
    /\ pc = "patterns"
    /\ image_data.edges.lines = <<>>
    /\ image_data.edges.triangle_lines = <<>>
    /\ image_data.edges.contours = <<>>

\* The documented defaults of detect_trend_lines.
DocumentedTrendDefaults ==
    /\ 10 * trend_lines.uptrend = 3 * Scale
    /\ 10 * trend_lines.downtrend = 3 * Scale
    /\ 10 * trend_lines.sideways = 5 * Scale

\* The list [Neutral Market with confidence 0.5].
OnlyNeutralMarket ==
    /\ Len(patterns) = 1
    /\ patterns[1].name = <<"Neutral", "Market">>
    /\ 2 * patterns[1].confidence = Scale

C16_ConfidenceInUnitInterval ==
    pc = "patterns" =>
        \A i \in 1..Len(patterns) :
           0 <= patterns[i].confidence /\ patterns[i].confidence <= Scale

\* An uptrend carried by every line: its confidence is capped at 1.
C16_Witness ==
    /\ pc = "patterns"
    /\ \E i \in 1..Len(patterns) :
          patterns[i].name = <<"Uptrend">> /\ patterns[i].confidence = Scale

\* ---------------------------------------------------------------- C17
\* C17: in every record extract_oscillators returns, rsi.value,
\* stochastic.k and stochastic.d all lie in [0, 100] (values in hundredths).
C17_OscillatorRanges ==
    pc = "oscillators" =>
        LET osc == indicators.oscillators
        IN  /\ 0 <= osc.rsi.value /\ osc.rsi.value <= 10000
            /\ 0 <= osc.stochastic.k /\ osc.stochastic.k <= 10000
            /\ 0 <= osc.stochastic.d /\ osc.stochastic.d <= 10000

\* ---------------------------------------------------------------- C18
\* The documented order of the timeframes, shortest first.
TimeframeOrder == <<"1m", "5m", "15m", "30m", "1h", "4h", "1D", "1W">>

\* The documented multipliers along that order, in hundredths.
DocumentedMultipliers == <<80, 85, 90, 95, 100, 105, 110, 115>>

TimeframeRank(tf) == CHOOSE i \in 1..Len(TimeframeOrder) : TimeframeOrder[i] = tf

\* C18: get_timeframe_multiplier returns a value in [0.8, 1.15]; along the
\* order 1m < 5m < 15m < 30m < 1h < 4h < 1D < 1W it returns 0.8, 0.85, 0.9,
\* 0.95, 1.0, 1.05, 1.1, 1.15, strictly more for the longer of two
\* timeframes; for a token outside that set it returns 1.0.
C18_TimeframeMultiplier ==
    multiplier # None =>
        /\ 80 <= multiplier.value /\ multiplier.value <= 115
        /\ multiplier.timeframe \in Timeframes =>
               multiplier.value = DocumentedMultipliers[TimeframeRank(multiplier.timeframe)]
        /\ multiplier.timeframe \notin Timeframes => multiplier.value = 100
        /\ (/\ previous # None
            /\ previous.timeframe \in Timeframes
            /\ multiplier.timeframe \in Timeframes
            /\ TimeframeRank(previous.timeframe) < TimeframeRank(multiplier.timeframe))
           => previous.value < multiplier.value

\* The multiplier of 4h was asked right after that of 1h.
C18_Witness ==
    /\ multiplier # None
    /\ previous # None
    /\ previous.timeframe = "1h"
    /\ multiplier.timeframe = "4h"

\* ---------------------------------------------------------------- C19
\* No detector passed its threshold and no candlestick observation was made.
NothingDetected ==
    ThresholdedPatterns(trend_lines, candlestick_patterns, head_and_shoulders,
                        double_top_bottom, triangle_patterns) = <<>>

\* C19: when no detector passes its threshold and no candlestick observation
\* is produced, identify_patterns returns exactly one entry; its confidence is
\* the maximum of the three trend confidences and its name is that of a class
\* attaining the maximum: Weak Uptrend, Weak Downtrend or Neutral Market, the
\* one of a class that is strictly the largest.
C19_FallbackEntry ==
    (pc = "patterns" /\ NothingDetected) =>
        LET up   == trend_lines.uptrend
            down == trend_lines.downtrend
            side == trend_lines.sideways
            top  == Max3(up, down, side)
            name == patterns[1].name
        IN  /\ Len(patterns) = 1
            /\ patterns[1].confidence = top
            /\ name \in {<<"Weak", "Uptrend">>, <<"Weak", "Downtrend">>, <<"Neutral", "Market">>}
            /\ name = <<"Weak", "Uptrend">> => up = top
            /\ name = <<"Weak", "Downtrend">> => down = top
            /\ name = <<"Neutral", "Market">> => side = top
            /\ (up > down /\ up > side) => name = <<"Weak", "Uptrend">>
            /\ (down > up /\ down > side) => name = <<"Weak", "Downtrend">>
            /\ (side > up /\ side > down) => name = <<"Neutral", "Market">>

\* The fallback entry of an image whose downtrend confidence is the largest
\* without passing the threshold.
C19_Witness ==
    /\ pc = "patterns"
    /\ NothingDetected
    /\ trend_lines.downtrend > trend_lines.uptrend
    /\ trend_lines.downtrend >= trend_lines.sideways
    /\ patterns = <<Pattern(<<"Weak", "Downtrend">>, trend_lines.downtrend)>>

\* ---------------------------------------------------------------- C20
\* C20: once a generative call of the process has failed with a quota error,
\* no later call of get_trading_suggestion attempts the generative call.
C20_NoAttemptAfterQuota ==
    [][(pc = "analyzed" /\ pc' = "suggested" /\ quota_exceeded) => ~attempted']_vars

\* ---------------------------------------------------------------- C21
\* C21: in a process that started without a credential, every call of
\* get_trading_suggestion made while a key entered in the sidebar is set
\* attempts the generative call, and every call made after the key was
\* cleared uses the rule-based aggregator only.
C21_SidebarKeyGatesAttempt ==
    [][(pc = "analyzed" /\ pc' = "suggested" /\ OPENAI_API_KEY = "") =>
          /\ environ # "" => attempted'
          /\ environ = "" => ~attempted']_vars

\* ---------------------------------------------------------------- C22
\* The documented order of the thresholded observations.
DetectionOrder ==
    << <<"Uptrend">>, <<"Downtrend">>, <<"Sideways/Consolidation">>,
       <<"Head", "and", "Shoulders">>, <<"Double", "Top">>, <<"Double", "Bottom">>,
       <<"Ascending", "Triangle">>, <<"Descending", "Triangle">>, <<"Symmetric", "Triangle">> >>

\* The place of a name in that order; candlestick observations come last.
DetectionRank(name) ==
    IF \E k \in 1..Len(DetectionOrder) : DetectionOrder[k] = name
    THEN CHOOSE k \in 1..Len(DetectionOrder) : DetectionOrder[k] = name
    ELSE Len(DetectionOrder) + 1

\* The returned list has an entry of this name, and each such entry carries
\* this confidence.
Emitted(name, confidence) ==
    /\ \E i \in 1..Len(patterns) : patterns[i].name = name
    /\ \A i \in 1..Len(patterns) : patterns[i].name = name => patterns[i].confidence = confidence

NotEmitted(name) == \A i \in 1..Len(patterns) : patterns[i].name # name

\* An observation is emitted with its confidence exactly when the confidence
\* is strictly greater than num / den.
EmittedIffAbove(name, confidence, num, den) ==
    IF den * confidence > num * Scale THEN Emitted(name, confidence) ELSE NotEmitted(name)

\* C22: identify_patterns emits Uptrend, Downtrend and
\* Sideways/Consolidation exactly when the class's confidence is strictly
\* greater than 0.6, Head and Shoulders, Double Top and Double Bottom exactly
\* when strictly greater than 0.7, a triangle variant exactly when strictly
\* greater than 0.65; the entries appear in the fixed detection order, the
\* candlestick observations last, whatever their confidences.
C22_ThresholdsAndOrder ==
    pc = "patterns" =>
        /\ EmittedIffAbove(<<"Uptrend">>, trend_lines.uptrend, 6, 10)
        /\ EmittedIffAbove(<<"Downtrend">>, trend_lines.downtrend, 6, 10)
        /\ EmittedIffAbove(<<"Sideways/Consolidation">>, trend_lines.sideways, 6, 10)
        /\ EmittedIffAbove(<<"Head", "and", "Shoulders">>, head_and_shoulders.confidence, 7, 10)
        /\ EmittedIffAbove(<<"Double", "Top">>, double_top_bottom.double_top.confidence, 7, 10)
        /\ EmittedIffAbove(<<"Double", "Bottom">>, double_top_bottom.double_bottom.confidence, 7, 10)
        /\ EmittedIffAbove(<<"Ascending", "Triangle">>, triangle_patterns.ascending.confidence, 65, 100)
        /\ EmittedIffAbove(<<"Descending", "Triangle">>, triangle_patterns.descending.confidence, 65, 100)
        /\ EmittedIffAbove(<<"Symmetric", "Triangle">>, triangle_patterns.symmetric.confidence, 65, 100)
        /\ \A i, j \in 1..Len(patterns) :
              i < j =>
                 \/ DetectionRank(patterns[i].name) < DetectionRank(patterns[j].name)
                 \/ /\ DetectionRank(patterns[i].name) > Len(DetectionOrder)
                    /\ DetectionRank(patterns[j].name) > Len(DetectionOrder)

\* An uptrend confidence of exactly 0.6 is not emitted, and the list holds a
\* later entry of higher confidence than an earlier one.
C22_Witness ==
    /\ pc = "patterns"
    /\ 10 * trend_lines.uptrend = 6 * Scale
    /\ NotEmitted(<<"Uptrend">>)
    /\ \E i, j \in 1..Len(patterns) :
          i < j /\ patterns[i].confidence < patterns[j].confidence

\* ---------------------------------------------------------------- C23
\* The classified segments of the request's edge map, by class.
SegmentCounts ==
    CountSlopes(image_data.edges.lines, 1, [uptrend |-> 0, downtrend |-> 0, horizontal |-> 0])

\* confidence is count / total, plus 0.1 if the class has the bonus, capped
\* at 1.0.
ShareWithBonus(confidence, count, total, bonus) ==
    10 * total * confidence
        = Scale * Min2(10 * count + (IF bonus THEN total ELSE 0), 10 * total)

\* C23: with at least one classified segment each class confidence of
\* detect_trend_lines is count / total, except that exactly one class, one
\* whose count is maximal, has 0.1 more, and every confidence is capped at
\* 1.0; with no classified segment the result is uptrend 0.3, downtrend 0.3,
\* sideways 0.5.
C23_TrendConfidences ==
    pc = "trend" =>
        LET c     == SegmentCounts
            total == c.uptrend + c.downtrend + c.horizontal
            most  == Max3(c.uptrend, c.downtrend, c.horizontal)
        IN  IF total = 0
            THEN /\ 10 * trend_lines.uptrend = 3 * Scale
                 /\ 10 * trend_lines.downtrend = 3 * Scale
                 /\ 10 * trend_lines.sideways = 5 * Scale
            ELSE \E winner \in {"uptrend", "downtrend", "horizontal"} :
                    /\ c[winner] = most
                    /\ ShareWithBonus(trend_lines.uptrend, c.uptrend, total, winner = "uptrend")
                    /\ ShareWithBonus(trend_lines.downtrend, c.downtrend, total, winner = "downtrend")
                    /\ ShareWithBonus(trend_lines.sideways, c.horizontal, total, winner = "horizontal")

\* One rising and one falling segment tie for the lead: only the uptrend has
\* the bonus.
C23_Witness ==
    /\ pc = "trend"
    /\ SegmentCounts = [uptrend |-> 1, downtrend |-> 1, horizontal |-> 0]
    /\ 10 * trend_lines.uptrend = 6 * Scale
    /\ 10 * trend_lines.downtrend = 5 * Scale

\* ---------------------------------------------------------------- C24
\* The action of the opposite direction and the same degree.
MirrorAction(action) ==
    CASE action = <<"STRONG", "LONG">>  -> <<"STRONG", "SHORT">>
      [] action = <<"LONG">>            -> <<"SHORT">>
      [] action = <<"WEAK", "LONG">>    -> <<"WEAK", "SHORT">>
      [] action = <<"NEUTRAL">>         -> <<"NEUTRAL">>
      [] action = <<"WEAK", "SHORT">>   -> <<"WEAK", "LONG">>
      [] action = <<"SHORT">>           -> <<"LONG">>
      [] action = <<"STRONG", "SHORT">> -> <<"STRONG", "LONG">>

\* C24 as stated: for every signal difference d the action of -d is the
\* mirror of the action of d, and 0 gives NEUTRAL.
C24_MirrorSymmetric ==
    Suggested =>
        /\ ActionOf(-signal_diff) = MirrorAction(suggestion.action)
        /\ signal_diff = 0 => suggestion.action = <<"NEUTRAL">>

\* C24: for every signal difference d other than 2, 4, -2 and -4 the action
\* of -d is the mirror of the action of d, and 0 gives NEUTRAL; at the
\* boundaries 2 gives WEAK LONG while -2 gives SHORT, and 4 gives LONG while
\* -4 gives STRONG SHORT.
C24_MirrorOffBoundaries ==
    Suggested =>
        LET d      == signal_diff
            action == suggestion.action
        IN  /\ Abs(d) \notin {2 * Scale, 4 * Scale} => ActionOf(-d) = MirrorAction(action)
            /\ d = 0 => action = <<"NEUTRAL">>
            /\ d = 2 * Scale => action = <<"WEAK", "LONG">> /\ ActionOf(-d) = <<"SHORT">>
            /\ d = -2 * Scale => action = <<"SHORT">> /\ ActionOf(-d) = <<"WEAK", "LONG">>
            /\ d = 4 * Scale => action = <<"LONG">> /\ ActionOf(-d) = <<"STRONG", "SHORT">>
            /\ d = -4 * Scale => action = <<"STRONG", "SHORT">> /\ ActionOf(-d) = <<"LONG">>

\* A suggestion at the boundary -2, which is SHORT where 2 is WEAK LONG.
C24_Witness ==
    /\ Suggested
    /\ signal_diff = -2 * Scale
    /\ suggestion.action = <<"SHORT">>

\* ---------------------------------------------------------------- C25
\* C25 as stated: in every rule-based suggestion strength is 0 if and only
\* if the action is NEUTRAL.
C25_StrengthZeroIffNeutral ==
    Suggested => (suggestion.strength = 0 <=> suggestion.action = <<"NEUTRAL">>)

\* C25: in every rule-based suggestion the action is NEUTRAL exactly when
\* signal_diff is 0, and strength is 0 exactly when |signal_diff| < 1/15: a
\* NEUTRAL suggestion has strength 0, and so has a WEAK LONG or WEAK SHORT
\* suggestion whose difference is a fraction below 1/15.
C25_StrengthZeroBelowFifteenth ==
    Suggested =>
        /\ suggestion.action = <<"NEUTRAL">> <=> signal_diff = 0
        /\ suggestion.strength = 0 <=> 15 * Abs(signal_diff) < Scale
        /\ suggestion.action = <<"NEUTRAL">> => suggestion.strength = 0
        /\ (suggestion.strength = 0 /\ suggestion.action # <<"NEUTRAL">>)
           => suggestion.action \in {<<"WEAK", "LONG">>, <<"WEAK", "SHORT">>}

\* A WEAK SHORT suggestion of strength 0: a Downtrend and a Double Bottom
\* nearly cancel.
C25_Witness ==
    /\ Suggested
    /\ suggestion.action = <<"WEAK", "SHORT">>
    /\ suggestion.strength = 0
    /\ signal_diff < 0

\* ---------------------------------------------------------------- C26
\* The names of the three thresholded trend observations.
TrendObservations == {<<"Uptrend">>, <<"Downtrend">>, <<"Sideways/Consolidation">>}

\* C26: at most one of the three confidences of detect_trend_lines exceeds
\* 0.6, and the list identify_patterns returns holds at most one of the
\* observations Uptrend, Downtrend and Sideways/Consolidation.
C26_AtMostOneTrend ==
    pc = "patterns" =>
        /\ Cardinality({ class \in {"uptrend", "downtrend", "sideways"} :
                           10 * trend_lines[class] > 6 * Scale }) <= 1
        /\ Cardinality({ i \in 1..Len(patterns) : patterns[i].name \in TrendObservations }) <= 1

\* A Downtrend is the one trend observation of a list, beside a class that
\* holds a third of the segments.
C26_Witness ==
    /\ pc = "patterns"
    /\ 10 * trend_lines.downtrend > 6 * Scale
    /\ 3 * trend_lines.uptrend = Scale
    /\ Cardinality({ i \in 1..Len(patterns) : patterns[i].name \in TrendObservations }) = 1
    /\ \E i \in 1..Len(patterns) : patterns[i].name = <<"Downtrend">>

\* ---------------------------------------------------------------- C27
\* C27: in every rule-based suggestion computed from positive levels with
\* support[0] < resistance[0], stop_loss < take_profit for the three LONG
\* actions and for NEUTRAL, and take_profit < stop_loss for the three SHORT
\* actions.
C27_StopAndTargetSides ==
    (/\ Suggested
     /\ indicators.support_resistance.support[1] > 0
     /\ indicators.support_resistance.support[1]
          < indicators.support_resistance.resistance[1])
    => /\ suggestion.action \in LongActions \cup {<<"NEUTRAL">>}
            => suggestion.stop_loss < suggestion.take_profit
       /\ suggestion.action \in ShortActions
            => suggestion.take_profit < suggestion.stop_loss

\* A NEUTRAL suggestion on levels with support[0] below resistance[0].
C27_Witness ==
    /\ Suggested
    /\ suggestion.action = <<"NEUTRAL">>
    /\ indicators.support_resistance.support[1] > 0
    /\ indicators.support_resistance.support[1]
         < indicators.support_resistance.resistance[1]
    /\ suggestion.stop_loss < suggestion.take_profit

\* ---------------------------------------------------------------- C28
\* Every level of the list lies in the closed range, in cents.
LevelsWithin(levels, low, high) ==
    \A i \in 1..Len(levels) : low <= levels[i] /\ levels[i] <= high

\* C28: every support and resistance level extract_support_resistance
\* returns lies in [50, 200], mapped from a line or padded; with no line and
\* no peak both support levels lie in [50, 95] and both resistance levels in
\* [155, 200], so that every support is below every resistance.
C28_LevelsInPriceRange ==
    pc = "levels" =>
        LET support    == indicators.support_resistance.support
            resistance == indicators.support_resistance.resistance
        IN  /\ LevelsWithin(support, 5000, 20000)
            /\ LevelsWithin(resistance, 5000, 20000)
            /\ horizontal_lines = <<>> =>
                  /\ Len(support) = 2 /\ LevelsWithin(support, 5000, 9500)
                  /\ Len(resistance) = 2 /\ LevelsWithin(resistance, 15500, 20000)
                  /\ \A i \in 1..Len(support), j \in 1..Len(resistance) :
                        support[i] < resistance[j]

\* One line was detected: a resistance mapped from its row stands beside a
\* padded one, and both supports are padded.
C28_Witness ==
    /\ pc = "levels"
    /\ Len(horizontal_lines) = 1
    /\ \E j \in 1..2 :
          indicators.support_resistance.resistance[j] = PriceOf(horizontal_lines[1], ImageShape.height)
    /\ indicators.support_resistance.support[2] = 9500

\* ---------------------------------------------------------------- C29
\* C29: across Analyze clicks the session state changes only at the end of
\* an analysis that did not raise, which stores the patterns, the indicators
\* and the suggestion of that one analysis and sets analysis_complete (a
\* rule-based suggestion is the one computed from the stored analysis);
\* analysis_complete is true only beside such a record; an analysis that
\* raises leaves analysis_complete and analysis_results as they were.
C29_SessionStateConsistent ==
    [][/\ session_state'.analysis_complete =>
             /\ session_state'.analysis_results # None
             /\ DOMAIN session_state'.analysis_results
                  = {"patterns", "indicators", "trading_suggestion"}
       /\ (pc \in {"suggested", "failed"} /\ raised) => session_state' = session_state
       /\ session_state' # session_state =>
             /\ pc = "suggested"
             /\ ~raised
             /\ session_state'.analysis_complete
             /\ session_state'.analysis_results
                  = [patterns |-> patterns, indicators |-> indicators,
                     trading_suggestion |-> suggestion]
             /\ ~attempted =>
                   suggestion = generate_rule_based_suggestion(analysis_results, timeframe)
      ]_vars

\* An analysis raised after an earlier one had completed: the session still
\* holds the record of the earlier one.
C29_Witness ==
    /\ pc = "failed"
    /\ raised
    /\ session_state.analysis_complete
    /\ session_state.analysis_results # None
    /\ session_state.analysis_results.trading_suggestion.action \in LongActions \cup ShortActions

\* ---------------------------------------------------------------- C30
\* The users stored in user_database.pkl.
StoredUsers == load_users(user_database)

\* C30: after any sequence of signup, login and logout calls no two stored
\* users share an email address; a signup whose username exists or whose
\* email is registered returned False and left the stored users as they
\* were; and the session is authenticated only as a stored user whose
\* password hash is the one that matched at the latest successful login.
C30_AuthConsistent ==
    /\ \A e1, e2 \in StoredUsers : e1.email = e2.email => e1 = e2
    /\ (/\ auth_call # None
        /\ auth_call.op = "signup"
        /\ \E e \in auth_call.before :
              e.username = auth_call.username \/ e.email = auth_call.email)
       => /\ auth_call.result = FALSE
          /\ StoredUsers = auth_call.before
    /\ session_state.authenticated =>
          /\ authenticated_as # None
          /\ session_state.username = authenticated_as.username
          /\ \E e \in StoredUsers :
                /\ e.username = session_state.username
                /\ e.password_hash = authenticated_as.password_hash

\* While alice is logged in, a signup of bob under alice's email was refused.
C30_Witness ==
    /\ session_state.authenticated
    /\ session_state.username = "alice"
    /\ auth_call # None
    /\ auth_call.op = "signup"
    /\ auth_call.username = "bob"
    /\ \E e \in auth_call.before : e.username = "alice" /\ e.email = auth_call.email
    /\ auth_call.result = FALSE
    /\ \A e \in StoredUsers : e.username # "bob"
====
